---------------------------- MODULE Spec2Model ----------------------------
(***************************************************************************)
(* The inventory tree of ansible-dns-inventory (pkg/inventory): host       *)
(* records are read from the datasource, parsed and expanded by GetHosts,  *)
(* loaded into the tree by ImportHosts and exported by ExportInventory,    *)
(* ExportHosts and ExportGroups.  A second specification, SpecCalls, calls *)
(* ParseAttributes, RenderAttributes, PublishHosts, the etcd datasource's  *)
(* PublishRecords and the DNS datasource's makeFQDN on their own, each on  *)
(* arguments drawn from a set.                                             *)
(*                                                                         *)
(* A Go string is a sequence of one-character strings, so that splitting,  *)
(* concatenation and bytewise comparison are computed, not assumed.  A Go  *)
(* map[string]bool whose values are all true is the set of its keys; any   *)
(* other Go map is a function on the set of its keys.  A *Node is the path *)
(* of names leading to it from the root: AddChild allocates a node for a   *)
(* parent and a name only when the parent has no child of that name.       *)
(***************************************************************************)
EXTENDS Integers, Sequences, FiniteSets, TLC

VARIABLES
    datasource,   \* the records Datasource.GetAllRecords returns
    hosts,        \* the map returned by the last GetHosts
    tree,         \* Inventory.Tree: the nodes reachable from the root
    export,       \* main's map `export`, which an exporter fills
    mode,         \* the exporter that filled it: "list", "hosts", "groups" or "none"
    imported,     \* the <<hostname, attributes>> pairs ImportHosts has visited
    again,        \* the pairs ImportHosts has visited more than once
    err,          \* main's `err` of GetHosts: "unset" before the call, then "nil"
    exit,         \* how the run ended: "none", "fatal" (log.Fatal) or "panic"
    call,         \* a call of one function on its own: its name and arguments
    result        \* <<>> while that call has not returned, then <<its value>>

vars == <<datasource, hosts, tree, export, mode, imported, again, err, exit,
          call, result>>

---------------------------------------------------------------------------
(* Bounds of the model.                                                    *)

\* The records of the datasource.
MaxRecords == 2

\* The attribute records of one host in a map handed to PublishHosts.
MaxPublished == 2

---------------------------------------------------------------------------
(* Evaluation order.  TLC evaluates an argument of an operator when the    *)
(* operator first uses it, so a loop that hands its accumulator on nests   *)
(* one pending evaluation per iteration.  Evaluated(v) is TRUE, and        *)
(* deciding it evaluates v: the loops below use it to compute the value of *)
(* one iteration before they start the next.  Likewise TLC keeps of        *)
(* [i \in 1..n |-> e] the rule e, which it computes again at every         *)
(* application; Elements(f) is the sequence f with its elements computed.  *)

Evaluated(v) == <<v>> # <<>>

Elements(f) == <<>> \o f

---------------------------------------------------------------------------
(* Strings.                                                                *)

\* The printable ASCII characters in byte order (0x20 .. 0x7E), without the
\* double quote, the backslash and the backquote, which no input here uses.
Ascii ==
    <<" ", "!", "#", "$", "%", "&", "'", "(", ")", "*", "+", ",", "-", ".", "/",
      "0", "1", "2", "3", "4", "5", "6", "7", "8", "9", ":", ";", "<", "=", ">", "?",
      "@", "A", "B", "C", "D", "E", "F", "G", "H", "I", "J", "K", "L", "M", "N", "O",
      "P", "Q", "R", "S", "T", "U", "V", "W", "X", "Y", "Z", "[", "]", "^", "_",
      "a", "b", "c", "d", "e", "f", "g", "h", "i", "j", "k", "l", "m", "n", "o",
      "p", "q", "r", "s", "t", "u", "v", "w", "x", "y", "z", "{", "|", "}", "~">>

Chars == {Ascii[i] : i \in 1..Len(Ascii)}

\* The byte order of a character (its position in Ascii).
Ord == [c \in Chars |-> CHOOSE i \in 1..Len(Ascii) : Ascii[i] = c]

Digits == {"0", "1", "2", "3", "4", "5", "6", "7", "8", "9"}

Letters == {c \in Chars : \/ Ord[c] >= Ord["A"] /\ Ord[c] <= Ord["Z"]
                          \/ Ord[c] >= Ord["a"] /\ Ord[c] <= Ord["z"]}

\* The least element of a non-empty set of integers.
Min(S) == CHOOSE x \in S : \A y \in S : x <= y

\* Go's < on strings: bytewise lexicographic order, decided at the first
\* position after the longest common prefix (of length p).
StrLess(a, b) ==
    LET n == IF Len(a) < Len(b) THEN Len(a) ELSE Len(b)
        p == Cardinality({i \in 1..n : SubSeq(a, 1, i) = SubSeq(b, 1, i)})
    IN IF p = n THEN Len(a) < Len(b) ELSE Ord[a[p + 1]] < Ord[b[p + 1]]

HasPrefix(s, p) == Len(p) <= Len(s) /\ SubSeq(s, 1, Len(p)) = p

\* strings.SplitN(s, sep, n) for a non-empty sep: s cut at the leftmost
\* occurrences of sep into at most n pieces (n < 0: any number), the last
\* piece holding the unsplit remainder.
RECURSIVE SplitN(_, _, _)
SplitN(s, sep, n) ==
    LET found == {i \in 1..(Len(s) - Len(sep) + 1) : SubSeq(s, i, i + Len(sep) - 1) = sep}
    IN IF n = 1 \/ found = {} THEN <<s>>
       ELSE <<SubSeq(s, 1, Min(found) - 1)>>
            \o SplitN(SubSeq(s, Min(found) + Len(sep), Len(s)), sep, n - 1)

\* strings.Split(s, sep)
Split(s, sep) == SplitN(s, sep, -1)

\* sort.Strings that sorts nothing.
SortStringsSkipped(s) == s

\* sort.Strings(s): the element at index j goes to the place that follows
\* the elements less than it and the equal elements before it.
SortStrings(s) ==
    LET before(j) == {k \in 1..Len(s) : StrLess(s[k], s[j]) \/ (s[k] = s[j] /\ k < j)}
        place == Elements([j \in 1..Len(s) |-> Cardinality(before(j)) + 1])
    IN IF \A i \in 1..(Len(s) - 1) : ~StrLess(s[i + 1], s[i]) THEN s
       ELSE Elements([i \in 1..Len(s) |-> s[CHOOSE j \in 1..Len(s) : place[j] = i]])

\* The elements of a sequence.
Range(s) == {s[i] : i \in 1..Len(s)}

\* The orders in which a Go `range` may visit the keys of a map.
RangeOrders == {"ascending", "descending"}

Reverse(s) == Elements([i \in 1..Len(s) |-> s[Len(s) + 1 - i]])

\* The strings of a set in ascending order.
Ascending(S) ==
    LET placed == {<<Cardinality({y \in S : StrLess(y, x)}) + 1, x>> : x \in S}
    IN Elements([i \in 1..Cardinality(S) |-> (CHOOSE p \in placed : p[1] = i)[2]])

\* One visit of every key of a map, in the order `ord`.
RangeKeys(S, ord) ==
    IF ord = "ascending" THEN Ascending(S) ELSE Reverse(Ascending(S))

\* Every order of the elements of a set.
RECURSIVE Perms(_)
Perms(S) ==
    IF S = {} THEN {<<>>}
    ELSE UNION {{<<x>> \o p : p \in Perms(S \ {x})} : x \in S}

---------------------------------------------------------------------------
(* Configuration (config/ansible-dns-inventory.yaml, the defaults).        *)

KeysSeparator == <<"_">>
KvSeparator == <<";">>
KvEqualsign == <<"=">>
KeyOs == <<"O", "S">>
KeyEnv == <<"E", "N", "V">>
KeyRole == <<"R", "O", "L", "E">>
KeySrv == <<"S", "R", "V">>
KeyVars == <<"V", "A", "R", "S">>

\* Ansible root group name.
ansibleRootGroup == <<"a", "l", "l">>

\* The literal "host" of the special groups.
hostLiteral == <<"h", "o", "s", "t">>

---------------------------------------------------------------------------
(* The tree (pkg/inventory/tree.go).                                       *)

\* The nameless node &Node{} that is the root's Parent.
Sentinel == <<>>

\* The root node of a tree.
Root == <<ansibleRootGroup>>

\* n.Name, also of the nameless sentinel.
NodeName(t, n) == IF n \in DOMAIN t THEN t[n].Name ELSE <<>>

NewTree ==
    Root :> [Name |-> ansibleRootGroup, Parent |-> Sentinel,
             Children |-> <<>>, Hosts |-> {}]

\* AddChild that puts a new child in front of n.Children.
AddChildInFront(t, n, name) ==
    IF t[n].Name = name THEN [tree |-> t, node |-> n]
    ELSE IF \E i \in 1..Len(t[n].Children) : t[t[n].Children[i]].Name = name
    THEN [tree |-> t,
          node |-> t[n].Children[CHOOSE j \in 1..Len(t[n].Children) :
                                     t[t[n].Children[j]].Name = name]]
    ELSE LET child == Append(n, name)
         IN [tree |-> (child :> [Name |-> name, Parent |-> n,
                                 Children |-> <<>>, Hosts |-> {}])
                      @@ [t EXCEPT ![n].Children = <<child>> \o @],
             node |-> child]

\* AddChild without the test `n.Name == name`.
AddChildOfOwnName(t, n, name) ==
    IF \E i \in 1..Len(t[n].Children) : t[t[n].Children[i]].Name = name
    THEN [tree |-> t,
          node |-> t[n].Children[CHOOSE j \in 1..Len(t[n].Children) :
                                     t[t[n].Children[j]].Name = name]]
    ELSE LET child == Append(n, name)
         IN [tree |-> (child :> [Name |-> name, Parent |-> n,
                                 Children |-> <<>>, Hosts |-> {}])
                      @@ [t EXCEPT ![n].Children = Append(@, child)],
             node |-> child]

\* AddChild without the search of n.Children: a child is appended whenever
\* the name is not the node's own.
AddChildUnsought(t, n, name) ==
    IF t[n].Name = name THEN [tree |-> t, node |-> n]
    ELSE LET child == Append(n, name)
         IN [tree |-> (child :> [Name |-> name, Parent |-> n,
                                 Children |-> <<>>, Hosts |-> {}])
                      @@ [t EXCEPT ![n].Children = Append(@, child)],
             node |-> child]

\* AddChild returns the tree it leaves and the node it returns.
AddChild(t, n, name) ==
    IF t[n].Name = name THEN [tree |-> t, node |-> n]
    ELSE IF \E i \in 1..Len(t[n].Children) : t[t[n].Children[i]].Name = name
    THEN LET i == CHOOSE j \in 1..Len(t[n].Children) :
                      /\ t[t[n].Children[j]].Name = name
                      /\ \A k \in 1..(j - 1) : t[t[n].Children[k]].Name # name
         IN [tree |-> t, node |-> t[n].Children[i]]
    ELSE LET child == Append(n, name)
         IN [tree |-> (child :> [Name |-> name, Parent |-> n,
                                 Children |-> <<>>, Hosts |-> {}])
                      @@ [t EXCEPT ![n].Children = Append(@, child)],
             node |-> child]

AddHost(t, n, host) == [t EXCEPT ![n].Hosts = @ \cup {host}]

\* sort.Slice(n.Children, by Name).  (AddChild gives the children of a node
\* different names, so that the order the sort leaves is the only one it
\* can; children of one name would stay in the order they have.)
SortNodes(t, s) ==
    LET before(j) == {k \in 1..Len(s) : \/ StrLess(t[s[k]].Name, t[s[j]].Name)
                                         \/ (t[s[k]].Name = t[s[j]].Name /\ k < j)}
        place == Elements([j \in 1..Len(s) |-> Cardinality(before(j)) + 1])
    IN Elements([i \in 1..Len(s) |-> s[CHOOSE j \in 1..Len(s) : place[j] = i]])

\* SortChildren that sorts nothing.
SortChildrenSkipped(t, n) == t

RECURSIVE SortChildren(_, _)
RECURSIVE SortEach(_, _)
SortEach(t, s) ==
    LET next == SortChildren(t, Head(s))
    IN CASE s = <<>> -> t
         [] s # <<>> /\ Evaluated(next) -> SortEach(next, Tail(s))

SortChildren(t, n) ==
    IF Len(t[n].Children) > 0
    THEN LET sorted == SortNodes(t, t[n].Children)
         IN SortEach([t EXCEPT ![n].Children = sorted], sorted)
    ELSE t


\* The service loop with the test `i == 0` alone: in every environment the
\* chain ends at the first segment.
ServiceChainFirstOnly(st, segs, i, env, attr, sep) ==
    IF i = 0 /\ Len(segs) > 0 /\ Len(segs[1]) > 0
    THEN LET name == st.groupName \o sep \o segs[1]
             c == AddChild(st.tree, st.groupNode, name)
         IN [tree |-> c.tree, groupNode |-> c.node, groupName |-> name]
    ELSE st

\* The service loop without the test `len(srv) > 0`.
RECURSIVE ServiceChainEmptyToo(_, _, _, _, _, _)
ServiceChainEmptyToo(st, segs, i, env, attr, sep) ==
    IF i >= Len(segs) THEN st
    ELSE IF i = 0 \/ env # ansibleRootGroup \/ attr.Env = ansibleRootGroup
    THEN LET name == st.groupName \o sep \o segs[i + 1]
             c == AddChild(st.tree, st.groupNode, name)
         IN CASE Evaluated(c) ->
                ServiceChainEmptyToo([tree |-> c.tree, groupNode |-> c.node,
                                      groupName |-> name],
                                     segs, i + 1, env, attr, sep)
    ELSE ServiceChainEmptyToo(st, segs, i + 1, env, attr, sep)

\* The service loop that extends the chain by every segment in every scope.
RECURSIVE ServiceChainEveryScope(_, _, _, _, _, _)
ServiceChainEveryScope(st, segs, i, env, attr, sep) ==
    IF i >= Len(segs) THEN st
    ELSE IF Len(segs[i + 1]) > 0
    THEN LET name == st.groupName \o sep \o segs[i + 1]
             c == AddChild(st.tree, st.groupNode, name)
         IN CASE Evaluated(c) ->
                ServiceChainEveryScope([tree |-> c.tree, groupNode |-> c.node,
                                        groupName |-> name],
                                       segs, i + 1, env, attr, sep)
    ELSE ServiceChainEveryScope(st, segs, i + 1, env, attr, sep)

\* The service loop of ImportHosts from segment index i on; st holds the
\* tree, groupNode and groupName.
RECURSIVE ServiceChain(_, _, _, _, _, _)
ServiceChain(st, segs, i, env, attr, sep) ==
    IF i >= Len(segs) THEN st
    ELSE LET srv == segs[i + 1]
         IN IF /\ Len(srv) > 0
               /\ (i = 0 \/ env # ansibleRootGroup \/ attr.Env = ansibleRootGroup)
            THEN LET name == st.groupName \o sep \o srv
                     c == AddChild(st.tree, st.groupNode, name)
                 IN CASE Evaluated(c) ->
                        ServiceChain([tree |-> c.tree, groupNode |-> c.node,
                                      groupName |-> name],
                                     segs, i + 1, env, attr, sep)
            ELSE ServiceChain(st, segs, i + 1, env, attr, sep)

\* The body of `for env := range envs` that adds the OS group to the
\* environment node, beside the host group.
ImportEnvOsBeside(t, n, host, attr, env, sep) ==
    LET envNode == AddChild(t, n, env)
        groupName == env \o sep \o attr.Role
        groupNode == AddChild(envNode.tree, envNode.node, groupName)
        last == ServiceChain([tree |-> groupNode.tree, groupNode |-> groupNode.node,
                              groupName |-> groupName],
                             Split(attr.Srv, sep), 0, env, attr, sep)
        held == AddHost(last.tree, last.groupNode, host)
        hostGroup == AddChild(held, envNode.node, env \o sep \o hostLiteral)
        osGroup == AddChild(hostGroup.tree, envNode.node,
                            env \o sep \o hostLiteral \o sep \o attr.OS)
    IN AddHost(osGroup.tree, osGroup.node, host)

\* The body of `for env := range envs` that names the role group by the
\* role alone, without the environment in front.
ImportEnvBareRole(t, n, host, attr, env, sep) ==
    LET envNode == AddChild(t, n, env)
        groupName == attr.Role
        groupNode == AddChild(envNode.tree, envNode.node, groupName)
        last == ServiceChain([tree |-> groupNode.tree, groupNode |-> groupNode.node,
                              groupName |-> groupName],
                             Split(attr.Srv, sep), 0, env, attr, sep)
        held == AddHost(last.tree, last.groupNode, host)
        hostGroup == AddChild(held, envNode.node, env \o sep \o hostLiteral)
        osGroup == AddChild(hostGroup.tree, hostGroup.node,
                            env \o sep \o hostLiteral \o sep \o attr.OS)
    IN AddHost(osGroup.tree, osGroup.node, host)

\* The body of `for env := range envs` that adds the host to the
\* environment node once the special groups are there, not to the OS group.
ImportEnvHostAtEnvironment(t, n, host, attr, env, sep) ==
    LET envNode == AddChild(t, n, env)
        groupName == env \o sep \o attr.Role
        groupNode == AddChild(envNode.tree, envNode.node, groupName)
        last == ServiceChain([tree |-> groupNode.tree, groupNode |-> groupNode.node,
                              groupName |-> groupName],
                             Split(attr.Srv, sep), 0, env, attr, sep)
        held == AddHost(last.tree, last.groupNode, host)
        hostGroup == AddChild(held, envNode.node, env \o sep \o hostLiteral)
        osGroup == AddChild(hostGroup.tree, hostGroup.node,
                            env \o sep \o hostLiteral \o sep \o attr.OS)
    IN AddHost(osGroup.tree, envNode.node, host)

\* The body of `for env := range envs` in ImportHosts.
ImportEnv(t, n, host, attr, env, sep) ==
    LET envNode == AddChild(t, n, env)
        groupName == env \o sep \o attr.Role
        groupNode == AddChild(envNode.tree, envNode.node, groupName)
        last == ServiceChain([tree |-> groupNode.tree, groupNode |-> groupNode.node,
                              groupName |-> groupName],
                             Split(attr.Srv, sep), 0, env, attr, sep)
        held == AddHost(last.tree, last.groupNode, host)
        hostGroup == AddChild(held, envNode.node, env \o sep \o hostLiteral)
        osGroup == AddChild(hostGroup.tree, hostGroup.node,
                            env \o sep \o hostLiteral \o sep \o attr.OS)
    IN AddHost(osGroup.tree, osGroup.node, host)

RECURSIVE ImportEnvs(_, _, _, _, _, _)
ImportEnvs(t, n, host, attr, envs, sep) ==
    LET next == ImportEnv(t, n, host, attr, Head(envs), sep)
    IN CASE envs = <<>> -> t
         [] envs # <<>> /\ Evaluated(next) ->
                ImportEnvs(next, n, host, attr, Tail(envs), sep)

\* The body of `for _, attr := range attrs`; envOrder is the order in which
\* the map envs is ranged over.
RECURSIVE ImportAttrs(_, _, _, _, _, _)
ImportAttrs(t, n, host, attrs, sep, envOrder) ==
    LET envs == {Head(attrs).Env, ansibleRootGroup}
        next == ImportEnvs(t, n, host, Head(attrs), RangeKeys(envs, envOrder), sep)
    IN CASE attrs = <<>> -> t
         [] attrs # <<>> /\ Evaluated(next) ->
                ImportAttrs(next, n, host, Tail(attrs), sep, envOrder)

\* `for host, attrs := range hosts`, the hosts visited in hostOrder.
RECURSIVE ImportEach(_, _, _, _, _, _)
ImportEach(t, n, hs, sep, hostOrder, envOrder) ==
    LET host == Head(hostOrder)
        next == ImportAttrs(t, n, host, hs[host], sep, envOrder[host])
    IN CASE hostOrder = <<>> -> t
         [] hostOrder # <<>> /\ Evaluated(next) ->
                ImportEach(next, n, hs, sep, Tail(hostOrder), envOrder)

\* Node.ImportHosts: hostOrder is the order in which the map hosts is ranged
\* over, envOrder[host] the order in which that host's envs maps are.
NodeImportHosts(t, n, hs, sep, hostOrder, envOrder) ==
    LET loaded == ImportEach(t, n, hs, sep, hostOrder, envOrder)
    IN CASE Evaluated(loaded) -> SortChildren(loaded, n)

\* The orders in which one ImportHosts call may range over its maps.
ImportOrders(hs) == Perms(DOMAIN hs) \X [DOMAIN hs -> RangeOrders]

\* GetAncestors that stops at the parent.
GetAncestorsParentOnly(t, n) ==
    IF Len(NodeName(t, t[n].Parent)) > 0 THEN <<t[n].Parent>> ELSE <<>>

RECURSIVE GetAncestors(_, _)
GetAncestors(t, n) ==
    IF Len(NodeName(t, t[n].Parent)) > 0
    THEN <<t[n].Parent>> \o GetAncestors(t, t[n].Parent)
    ELSE <<>>

\* GetAllHosts without the hosts of the descendants.
GetAllHostsOwn(t, n) == t[n].Hosts

RECURSIVE GetAllHosts(_, _)
GetAllHosts(t, n) ==
    t[n].Hosts \cup
    UNION {GetAllHosts(t, t[n].Children[i]) : i \in 1..Len(t[n].Children)}

\* An empty Go map.
EmptyMap == <<>>

\* m[k] = v
Put(m, k, v) == (k :> v) @@ m

\* m[k], the zero value (a nil slice) when k is no key of m.
Get(m, k) == IF k \in DOMAIN m THEN m[k] ELSE <<>>

RECURSIVE NodeExportInventory(_, _, _, _)
RECURSIVE ExportInventoryEach(_, _, _, _)
ExportInventoryEach(t, s, inv, ord) ==
    LET next == NodeExportInventory(t, Head(s), inv, ord)
    IN CASE s = <<>> -> inv
         [] s # <<>> /\ Evaluated(next) -> ExportInventoryEach(t, Tail(s), next, ord)

\* Node.ExportInventory into the map inv; ord is the order in which the call
\* ranges over maps.
NodeExportInventory(t, n, inv, ord) ==
    LET children == Elements([i \in 1..Len(t[n].Children) |-> t[t[n].Children[i]].Name])
        hostList == SortStrings(RangeKeys(t[n].Hosts, ord))
        put == Put(inv, t[n].Name, [Children |-> children, Hosts |-> hostList])
    IN CASE Evaluated(put) -> ExportInventoryEach(t, t[n].Children, put, ord)

\* The body of `for host := range n.Hosts` that appends the names of this
\* node to the current list instead of collecting both.
CollectHostAppended(t, n, m, host, ord) ==
    LET ancestors == GetAncestors(t, n)
        collected == {t[n].Name} \cup {t[ancestors[i]].Name : i \in 1..Len(ancestors)}
    IN Put(m, host, SortStrings(Get(m, host) \o RangeKeys(collected, ord)))

\* The body of `for host := range n.Hosts` that does not read the current
\* list of the host.
CollectHostOverwritten(t, n, m, host, ord) ==
    LET ancestors == GetAncestors(t, n)
        collected == {t[n].Name} \cup {t[ancestors[i]].Name : i \in 1..Len(ancestors)}
    IN Put(m, host, SortStrings(RangeKeys(collected, ord)))

\* The body of `for host := range n.Hosts` in ExportHosts.
CollectHost(t, n, m, host, ord) ==
    LET ancestors == GetAncestors(t, n)
        collected == {t[n].Name}
                     \cup {t[ancestors[i]].Name : i \in 1..Len(ancestors)}
                     \cup Range(Get(m, host))
    IN Put(m, host, SortStrings(RangeKeys(collected, ord)))

RECURSIVE CollectHosts(_, _, _, _, _)
CollectHosts(t, n, m, hostSeq, ord) ==
    LET next == CollectHost(t, n, m, Head(hostSeq), ord)
    IN CASE hostSeq = <<>> -> m
         [] hostSeq # <<>> /\ Evaluated(next) ->
                CollectHosts(t, n, next, Tail(hostSeq), ord)

RECURSIVE NodeExportHosts(_, _, _, _)
RECURSIVE ExportHostsEach(_, _, _, _)
ExportHostsEach(t, s, m, ord) ==
    LET next == NodeExportHosts(t, Head(s), m, ord)
    IN CASE s = <<>> -> m
         [] s # <<>> /\ Evaluated(next) -> ExportHostsEach(t, Tail(s), next, ord)

\* Node.ExportHosts into the map m.
NodeExportHosts(t, n, m, ord) ==
    LET own == CollectHosts(t, n, m, RangeKeys(t[n].Hosts, ord), ord)
    IN CASE Evaluated(own) -> ExportHostsEach(t, t[n].Children, own, ord)

RECURSIVE NodeExportGroups(_, _, _, _)
RECURSIVE ExportGroupsEach(_, _, _, _)
ExportGroupsEach(t, s, m, ord) ==
    LET next == NodeExportGroups(t, Head(s), m, ord)
    IN CASE s = <<>> -> m
         [] s # <<>> /\ Evaluated(next) -> ExportGroupsEach(t, Tail(s), next, ord)

\* Node.ExportGroups into the map m.
NodeExportGroups(t, n, m, ord) ==
    LET hostList == SortStrings(RangeKeys(GetAllHosts(t, n), ord))
        put == Put(m, t[n].Name, hostList)
    IN CASE Evaluated(put) -> ExportGroupsEach(t, t[n].Children, put, ord)

---------------------------------------------------------------------------
(* Parsing and expansion (pkg/inventory/inventory.go).                     *)

\* The zero value of HostAttributes.
ZeroAttributes == [OS |-> <<>>, Env |-> <<>>, Role |-> <<>>, Srv |-> <<>>, Vars |-> <<>>]

AllIn(s, S) == \A i \in 1..Len(s) : s[i] \in S

\* validator tag `required`: not the zero value.
Required(s) == s # <<>>

\* validators.NotBlank: something is left of the string once trimmed.
NotBlank(s) == \E i \in 1..Len(s) : s[i] # " "

\* validator tag `alphanum`: ^[a-zA-Z0-9]+$
Alphanum(s) == s # <<>> /\ AllIn(s, Letters \cup Digits)

\* adiSafeListRegexString
isSafeList(s) == AllIn(s, Letters \cup Digits \cup {","})

\* adiSafeListWithSeparatorRegexString
isSafeListWithSeparator(s) == AllIn(s, Letters \cup Digits \cup {",", "-", "_"})

\* validator tag `printascii`: ^[\x20-\x7E]*$
PrintASCII(s) == AllIn(s, Chars)

\* Validator.Struct with Role held to its character set alone.
ValidAttributesRoleOptional(a) ==
    /\ Required(a.OS) /\ NotBlank(a.OS) /\ Alphanum(a.OS)
    /\ Required(a.Env) /\ NotBlank(a.Env) /\ Alphanum(a.Env)
    /\ isSafeList(a.Role)
    /\ isSafeListWithSeparator(a.Srv)
    /\ PrintASCII(a.Vars)

\* Validator.Struct on a HostAttributes, by the tags of its fields.
ValidAttributes(a) ==
    /\ Required(a.OS) /\ NotBlank(a.OS) /\ Alphanum(a.OS)
    /\ Required(a.Env) /\ NotBlank(a.Env) /\ Alphanum(a.Env)
    /\ Required(a.Role) /\ NotBlank(a.Role) /\ isSafeList(a.Role)
    /\ isSafeListWithSeparator(a.Srv)
    /\ PrintASCII(a.Vars)

\* The switch of ParseAttributes on an item split at every equals sign.
ParseItemSplitAll(st, item) ==
    LET kv == Split(item, KvEqualsign)
        known == kv[1] \in {KeyOs, KeyEnv, KeyRole, KeySrv, KeyVars}
    IN IF st.panic \/ ~known THEN st
       ELSE IF Len(kv) < 2 THEN [st EXCEPT !.panic = TRUE]
       ELSE IF kv[1] = KeyOs THEN [st EXCEPT !.attrs.OS = kv[2]]
       ELSE IF kv[1] = KeyEnv THEN [st EXCEPT !.attrs.Env = kv[2]]
       ELSE IF kv[1] = KeyRole THEN [st EXCEPT !.attrs.Role = kv[2]]
       ELSE IF kv[1] = KeySrv THEN [st EXCEPT !.attrs.Srv = kv[2]]
       ELSE [st EXCEPT !.attrs.Vars = kv[2]]

\* The switch of ParseAttributes on one item: the attributes it leaves, and
\* whether kv[1] was read from a kv of length 1 (an index out of range).
ParseItem(st, item) ==
    LET kv == SplitN(item, KvEqualsign, 2)
        known == kv[1] \in {KeyOs, KeyEnv, KeyRole, KeySrv, KeyVars}
    IN IF st.panic \/ ~known THEN st
       ELSE IF Len(kv) < 2 THEN [st EXCEPT !.panic = TRUE]
       ELSE IF kv[1] = KeyOs THEN [st EXCEPT !.attrs.OS = kv[2]]
       ELSE IF kv[1] = KeyEnv THEN [st EXCEPT !.attrs.Env = kv[2]]
       ELSE IF kv[1] = KeyRole THEN [st EXCEPT !.attrs.Role = kv[2]]
       ELSE IF kv[1] = KeySrv THEN [st EXCEPT !.attrs.Srv = kv[2]]
       ELSE [st EXCEPT !.attrs.Vars = kv[2]]

RECURSIVE ParseItems(_, _)
ParseItems(st, items) ==
    LET next == ParseItem(st, Head(items))
    IN CASE items = <<>> -> st
         [] items # <<>> /\ Evaluated(next) -> ParseItems(next, Tail(items))

\* ParseAttributes(raw): attrs is <<a>> for the record a it returns and <<>> for
\* nil; err tells whether it returns an error; panic whether it does not return.
ParseAttributes(raw) ==
    LET st == ParseItems([attrs |-> ZeroAttributes, panic |-> FALSE],
                         Split(raw, KvSeparator))
    IN IF st.panic THEN [attrs |-> <<>>, err |-> FALSE, panic |-> TRUE]
       ELSE IF ~ValidAttributes(st.attrs) THEN [attrs |-> <<>>, err |-> TRUE, panic |-> FALSE]
       ELSE [attrs |-> <<st.attrs>>, err |-> FALSE, panic |-> FALSE]

\* The loop of RenderAttributes with the pair separator written after every pair.
RECURSIVE RenderPairsEachSeparated(_, _, _)
RenderPairsEachSeparated(str, attrs, i) ==
    IF i >= Len(attrs) THEN str
    ELSE RenderPairsEachSeparated(
             str \o attrs[i + 1][1] \o KvEqualsign \o attrs[i + 1][2] \o KvSeparator,
             attrs, i + 1)

\* `for i, attr := range attrs` of RenderAttributes from index i on; str is
\* what attrString holds.
RECURSIVE RenderPairs(_, _, _)
RenderPairs(str, attrs, i) ==
    IF i >= Len(attrs) THEN str
    ELSE LET written == str \o attrs[i + 1][1] \o KvEqualsign \o attrs[i + 1][2]
         IN RenderPairs(IF i # Len(attrs) - 1 THEN written \o KvSeparator ELSE written,
                        attrs, i + 1)

\* Inventory.RenderAttributes: the string and whether an error is returned.
RenderAttributes(attributes) ==
    IF ~ValidAttributes(attributes) THEN [str |-> <<>>, err |-> TRUE]
    ELSE [str |-> RenderPairs(<<>>,
                              <<<<KeyOs, attributes.OS>>, <<KeyEnv, attributes.Env>>,
                                <<KeyRole, attributes.Role>>, <<KeySrv, attributes.Srv>>,
                                <<KeyVars, attributes.Vars>>>>, 0),
          err |-> FALSE]

\* `for _, srv := range strings.Split(attrs.Srv, ",")` of GetHosts from srvs on.
RECURSIVE ExpandSrv(_, _, _, _, _)
ExpandSrv(hs, hostname, attrs, role, srvs) ==
    LET next == Put(hs, hostname,
                    Append(Get(hs, hostname),
                           [OS |-> attrs.OS, Env |-> attrs.Env, Role |-> role,
                            Srv |-> Head(srvs), Vars |-> attrs.Vars]))
    IN CASE srvs = <<>> -> hs
         [] srvs # <<>> /\ Evaluated(next) ->
                ExpandSrv(next, hostname, attrs, role, Tail(srvs))

\* The role loop that stops after the first role.
ExpandRoleFirst(hs, hostname, attrs, roles) ==
    IF roles = <<>> THEN hs
    ELSE ExpandSrv(hs, hostname, attrs, Head(roles), Split(attrs.Srv, <<",">>))

\* `for _, role := range strings.Split(attrs.Role, ",")` of GetHosts from roles on.
RECURSIVE ExpandRole(_, _, _, _)
ExpandRole(hs, hostname, attrs, roles) ==
    LET next == ExpandSrv(hs, hostname, attrs, Head(roles), Split(attrs.Srv, <<",">>))
    IN CASE roles = <<>> -> hs
         [] roles # <<>> /\ Evaluated(next) ->
                ExpandRole(next, hostname, attrs, Tail(roles))

\* The record loop of GetHosts that ends at the first record ParseAttributes
\* returns an error for.
RECURSIVE GetHostsFromUntilError(_, _)
GetHostsFromUntilError(st, records) ==
    IF records = <<>> \/ st.panic THEN st
    ELSE LET r == Head(records)
             p == ParseAttributes(r.Attributes)
         IN IF p.panic THEN [st EXCEPT !.panic = TRUE]
            ELSE IF p.err THEN st
            ELSE LET next == ExpandRole(st.hosts, r.Hostname, p.attrs[1],
                                        Split(p.attrs[1].Role, <<",">>))
                 IN CASE Evaluated(next) ->
                        GetHostsFromUntilError([st EXCEPT !.hosts = next], Tail(records))

\* `for _, r := range records` of GetHosts from records on; st holds the map
\* hosts and whether ParseAttributes panicked.
RECURSIVE GetHostsFrom(_, _)
GetHostsFrom(st, records) ==
    IF records = <<>> \/ st.panic THEN st
    ELSE LET r == Head(records)
             p == ParseAttributes(r.Attributes)
         IN IF p.panic THEN [st EXCEPT !.panic = TRUE]
            ELSE IF p.err THEN GetHostsFrom(st, Tail(records))
            ELSE LET next == ExpandRole(st.hosts, r.Hostname, p.attrs[1],
                                        Split(p.attrs[1].Role, <<",">>))
                 IN CASE Evaluated(next) ->
                        GetHostsFrom([st EXCEPT !.hosts = next], Tail(records))

\* Inventory.GetHosts on the records the datasource returns.
InventoryGetHosts(records) == GetHostsFrom([hosts |-> EmptyMap, panic |-> FALSE], records)

---------------------------------------------------------------------------
(* Publishing to the etcd datasource (pkg/inventory/etcd.go).              *)

\* strings.HasSuffix
HasSuffix(s, suffix) ==
    Len(suffix) <= Len(s) /\ SubSeq(s, Len(s) - Len(suffix) + 1, Len(s)) = suffix

\* strings.Trim(s, cutset) for a cutset of one character.
Trim(s, c) ==
    LET kept == {i \in 1..Len(s) : s[i] # c}
    IN IF kept = {} THEN <<>>
       ELSE SubSeq(s, Min(kept), CHOOSE i \in kept : \A j \in kept : j <= i)

\* The verb %d of fmt.Sprintf on a count: its decimal digits.
RECURSIVE Itoa(_)
Itoa(n) ==
    LET digit == SubSeq(<<"0", "1", "2", "3", "4", "5", "6", "7", "8", "9">>,
                        (n % 10) + 1, (n % 10) + 1)
    IN IF n < 10 THEN digit ELSE Itoa(n \div 10) \o digit

\* etcd.zones
EtcdZones == <<<<"s", "e", "r", "v", "e", "r", ".", "l", "o", "c", "a", "l", ".">>>>

\* EtcdDatasource.findZone: the first configured zone the host name ends with.
findZone(host) ==
    LET matching == {i \in 1..Len(EtcdZones) :
                        HasSuffix(Trim(host, "."), Trim(EtcdZones[i], "."))}
    IN IF matching = {} THEN [zone |-> <<>>, err |-> TRUE]
       ELSE [zone |-> EtcdZones[Min(matching)], err |-> FALSE]

\* EtcdDatasource.putRecord: puts is the sequence of the requests Client.Put
\* has served.
putRecord(puts, record, count) ==
    LET found == findZone(record.Hostname)
    IN IF found.err THEN [puts |-> puts, err |-> TRUE]
       ELSE [puts |-> Append(puts,
                             [key |-> found.zone \o <<"/">> \o record.Hostname
                                      \o <<"/">> \o Itoa(count),
                              value |-> record.Attributes]),
             err |-> FALSE]

\* The next count of a host name in PublishRecords.
Counted(counts, hostname) ==
    IF hostname \in DOMAIN counts THEN Put(counts, hostname, counts[hostname] + 1)
    ELSE Put(counts, hostname, 0)

\* The loop of PublishRecords with one count for all host names.
RECURSIVE PublishEachOneCount(_, _)
PublishEachOneCount(st, records) ==
    IF records = <<>> \/ st.err THEN st
    ELSE LET put == putRecord(st.puts, Head(records), Len(st.puts))
         IN PublishEachOneCount([counts |-> st.counts, puts |-> put.puts, err |-> put.err],
                                Tail(records))

\* `for _, record := range records` of PublishRecords from records on; st
\* holds counts, the requests served and whether an error is returned.
RECURSIVE PublishEach(_, _)
PublishEach(st, records) ==
    IF records = <<>> \/ st.err THEN st
    ELSE LET counts == Counted(st.counts, Head(records).Hostname)
             put == putRecord(st.puts, Head(records), counts[Head(records).Hostname])
         IN PublishEach([counts |-> counts, puts |-> put.puts, err |-> put.err],
                        Tail(records))

\* EtcdDatasource.PublishRecords: the requests served and whether an error
\* is returned.
PublishRecords(records) ==
    LET st == PublishEach([counts |-> EmptyMap, puts |-> <<>>, err |-> FALSE], records)
    IN [puts |-> st.puts, err |-> st.err]

\* `for _, attrs := range attrsList` of PublishHosts from attrsList on.
RECURSIVE RenderEach(_, _, _)
RenderEach(records, hostname, attrsList) ==
    IF attrsList = <<>> THEN records
    ELSE LET rendered == RenderAttributes(Head(attrsList))
         IN RenderEach(IF rendered.err THEN records
                       ELSE Append(records, [Hostname |-> hostname,
                                             Attributes |-> rendered.str]),
                       hostname, Tail(attrsList))

\* `for hostname, attrsList := range hosts` of PublishHosts, the host names
\* in the order the map gives them.
RECURSIVE RenderHosts(_, _, _)
RenderHosts(records, hs, hostOrder) ==
    IF hostOrder = <<>> THEN records
    ELSE RenderHosts(RenderEach(records, Head(hostOrder), hs[Head(hostOrder)]),
                     hs, Tail(hostOrder))

\* Inventory.PublishHosts with the etcd datasource.
PublishHosts(hs, hostOrder) == PublishRecords(RenderHosts(<<>>, hs, hostOrder))

\* What the etcd keyspace holds, a map of keys to values, after Client.Put
\* has served the requests puts in order.
RECURSIVE EtcdAfter(_, _)
EtcdAfter(kvs, puts) ==
    IF puts = <<>> THEN kvs
    ELSE EtcdAfter(Put(kvs, Head(puts).key, Head(puts).value), Tail(puts))

---------------------------------------------------------------------------
(* Host names of DNS requests (pkg/inventory/dns.go).                      *)

\* strings.TrimPrefix
TrimPrefix(s, prefix) ==
    IF HasPrefix(s, prefix) THEN SubSeq(s, Len(prefix) + 1, Len(s)) ELSE s

\* dns.IsFqdn: s ends with a dot that no backslash escapes (an even number
\* of backslashes stands before it).
IsFqdn(s) ==
    LET s2 == SubSeq(s, 1, Len(s) - 1)
        plain == {i \in 1..Len(s2) : s2[i] # "\\"}
        last == IF plain = {} THEN 0 ELSE CHOOSE i \in plain : \A j \in plain : j <= i
    IN /\ Len(s) > 0
       /\ s[Len(s)] = "."
       /\ (Len(s2) - last) % 2 = 0

\* dns.Fqdn
Fqdn(s) == IF IsFqdn(s) THEN s ELSE s \o <<".">>

\* DNSDatasource.makeFQDN
makeFQDN(host, zone) ==
    LET name == TrimPrefix(host, <<".">>)
        domain == TrimPrefix(zone, <<".">>)
    IN IF Len(domain) = 0 THEN Fqdn(name)
       ELSE TrimPrefix(Fqdn(name \o <<".">> \o domain), <<".">>)

---------------------------------------------------------------------------
(* The inputs.                                                             *)

app01 == <<"a", "p", "p", "0", "1">>
app02 == <<"a", "p", "p", "0", "2">>

\* OS=lin;ENV=dev;ROLE=app;SRV=web_be
RawChain ==
    <<"O", "S", "=", "l", "i", "n", ";", "E", "N", "V", "=", "d", "e", "v", ";",
      "R", "O", "L", "E", "=", "a", "p", "p", ";",
      "S", "R", "V", "=", "w", "e", "b", "_", "b", "e">>

\* OS=lin;ENV=dev;ROLE=app,db;SRV=_api,web
RawLists ==
    <<"O", "S", "=", "l", "i", "n", ";", "E", "N", "V", "=", "d", "e", "v", ";",
      "R", "O", "L", "E", "=", "a", "p", "p", ",", "d", "b", ";",
      "S", "R", "V", "=", "_", "a", "p", "i", ",", "w", "e", "b">>

\* OS=win;ENV=qa;ROLE=db;SRV=
RawNoSrv ==
    <<"O", "S", "=", "w", "i", "n", ";", "E", "N", "V", "=", "q", "a", ";",
      "R", "O", "L", "E", "=", "d", "b", ";", "S", "R", "V", "=">>

\* OS=lin;ENV=all;ROLE=db;SRV=web_be
RawAll ==
    <<"O", "S", "=", "l", "i", "n", ";", "E", "N", "V", "=", "a", "l", "l", ";",
      "R", "O", "L", "E", "=", "d", "b", ";",
      "S", "R", "V", "=", "w", "e", "b", "_", "b", "e">>

\* OS=lin;ENV=dev;SRV=web (no ROLE: the record fails validation)
RawNoRole ==
    <<"O", "S", "=", "l", "i", "n", ";", "E", "N", "V", "=", "d", "e", "v", ";",
      "S", "R", "V", "=", "w", "e", "b">>

\* OS (a key without the equals sign)
RawBareKey == <<"O", "S">>

\* OS=lin;ENV=dev;ROLE=host;SRV=lin,a-b_c (the role named as the special
\* host group, a service named as the OS)
RawHostRole ==
    <<"O", "S", "=", "l", "i", "n", ";", "E", "N", "V", "=", "d", "e", "v", ";",
      "R", "O", "L", "E", "=", "h", "o", "s", "t", ";",
      "S", "R", "V", "=", "l", "i", "n", ",", "a", "-", "b", "_", "c">>

\* OS=win;ENV=all;ROLE=app,;SRV=a_b (a comma behind the role)
RawRoleComma ==
    <<"O", "S", "=", "w", "i", "n", ";", "E", "N", "V", "=", "a", "l", "l", ";",
      "R", "O", "L", "E", "=", "a", "p", "p", ",", ";",
      "S", "R", "V", "=", "a", "_", "b">>

\* The records that may appear in the zone the datasource reads.
DatasourceRecords ==
    {[Hostname |-> app01, Attributes |-> RawChain],
     [Hostname |-> app01, Attributes |-> RawBareKey],
     [Hostname |-> app02, Attributes |-> RawLists],
     [Hostname |-> app02, Attributes |-> RawNoSrv],
     [Hostname |-> app01, Attributes |-> RawAll],
     [Hostname |-> app01, Attributes |-> RawNoRole]}

---------------------------------------------------------------------------
(* The state machine.                                                      *)

\* The <<hostname, attributes>> pairs of a map of hosts.
Pairs(hs) == UNION {{<<h, hs[h][i]>> : i \in 1..Len(hs[h])} : h \in DOMAIN hs}

\* The pairs a map of hosts holds more than once.
Repeated(hs) ==
    UNION {{<<h, hs[h][i]>> : i \in {j \in 1..Len(hs[h]) :
                                       \E k \in 1..(j - 1) : hs[h][k] = hs[h][j]}}
           : h \in DOMAIN hs}

\* No function is called on its own.
NoCall == [op |-> "none"]

Init ==
    /\ datasource = <<>>
    /\ hosts = EmptyMap
    /\ tree = NewTree
    /\ export = EmptyMap
    /\ mode = "none"
    /\ imported = {}
    /\ again = {}
    /\ err = "unset"
    /\ exit = "none"
    /\ call = NoCall
    /\ result = <<>>

\* A record is added to the zone (or key space) the datasource reads.
AddRecord ==
    /\ mode = "none"
    /\ exit = "none"
    /\ Len(datasource) < MaxRecords
    /\ \E r \in DatasourceRecords : datasource' = Append(datasource, r)
    /\ UNCHANGED <<hosts, tree, export, mode, imported, again, err, exit, call, result>>

\* main without the test `len(hosts) == 0`.
ExitOnAnyHosts(hs) == "none"

\* main: if len(hosts) == 0 { log.Fatal("no host records found") }
ExitOn(hs) == IF DOMAIN hs = {} THEN "fatal" ELSE "none"

\* main: hosts, err := dnsInventory.GetHosts(), and the two tests of what it
\* returned.  A panic of ParseAttributes ends the run inside the call; the
\* call returns a nil error otherwise, and main ends the run on an empty map.
GetHosts ==
    /\ mode = "none"
    /\ exit = "none"
    /\ LET got == InventoryGetHosts(datasource)
       IN IF got.panic
          THEN exit' = "panic" /\ UNCHANGED <<hosts, err>>
          ELSE /\ hosts' = got.hosts
               /\ err' = "nil"
               /\ exit' = ExitOn(got.hosts)
    /\ UNCHANGED <<datasource, tree, export, mode, imported, again, call, result>>

\* main has read hosts and has not stopped on "no host records found".
HostsFound == exit = "none" /\ err = "nil"

\* main has loaded the hosts it read into the tree.
HostsLoaded == HostsFound /\ Pairs(hosts) \subseteq imported

\* main: dnsInventory.ImportHosts(hosts)
ImportHosts ==
    /\ mode = "none"
    /\ HostsFound
    /\ \E o \in ImportOrders(hosts) :
           tree' = NodeImportHosts(tree, Root, hosts, KeysSeparator, o[1], o[2])
    /\ imported' = imported \cup Pairs(hosts)
    /\ again' = again \cup (imported \cap Pairs(hosts)) \cup Repeated(hosts)
    /\ UNCHANGED <<datasource, hosts, export, mode, err, exit, call, result>>

\* main: dnsInventory.ExportInventory(export), into a new map or into the
\* map of an earlier call; ord is the order in which the call ranges over maps.
ExportInventory ==
    /\ mode \in {"none", "list"}
    /\ HostsLoaded
    /\ \E ord \in RangeOrders, m \in {EmptyMap, export} :
           export' = NodeExportInventory(tree, Root, m, ord)
    /\ mode' = "list"
    /\ UNCHANGED <<datasource, hosts, tree, imported, again, err, exit, call, result>>

\* main: dnsInventory.ExportHosts(export)
ExportHosts ==
    /\ mode \in {"none", "hosts"}
    /\ HostsLoaded
    /\ \E ord \in RangeOrders, m \in {EmptyMap, export} :
           export' = NodeExportHosts(tree, Root, m, ord)
    /\ mode' = "hosts"
    /\ UNCHANGED <<datasource, hosts, tree, imported, again, err, exit, call, result>>

\* main: dnsInventory.ExportGroups(export)
ExportGroups ==
    /\ mode \in {"none", "groups"}
    /\ HostsLoaded
    /\ \E ord \in RangeOrders, m \in {EmptyMap, export} :
           export' = NodeExportGroups(tree, Root, m, ord)
    /\ mode' = "groups"
    /\ UNCHANGED <<datasource, hosts, tree, imported, again, err, exit, call, result>>

Next ==
    \/ AddRecord
    \/ GetHosts
    \/ ImportHosts
    \/ ExportInventory
    \/ ExportHosts
    \/ ExportGroups

Spec == Init /\ [][Next]_vars

---------------------------------------------------------------------------
(* Calls of one function on its own: the arguments are drawn when the call *)
(* is made, and the function is applied by the step that returns.          *)

\* The items of a raw attribute string joined by the pair separator.
RECURSIVE RawOf(_)
RawOf(items) ==
    IF items = <<>> THEN <<>>
    ELSE IF Len(items) = 1 THEN items[1]
    ELSE items[1] \o KvSeparator \o RawOf(Tail(items))

\* The items for OS: none, OS=lin, OS=, OS= (a blank), OS=l-n, and the bare key OS.
OsItems ==
    {<<>>,
     <<<<"O", "S", "=", "l", "i", "n">>>>,
     <<<<"O", "S", "=">>>>,
     <<<<"O", "S", "=", " ">>>>,
     <<<<"O", "S", "=", "l", "-", "n">>>>,
     <<<<"O", "S">>>>}

\* The items for ENV: ENV=dev, none, ENV=d_v.
EnvItems ==
    {<<<<"E", "N", "V", "=", "d", "e", "v">>>>,
     <<>>,
     <<<<"E", "N", "V", "=", "d", "_", "v">>>>}

\* The items for ROLE: ROLE=app,db, none, ROLE=, ROLE=a_p.
RoleItems ==
    {<<<<"R", "O", "L", "E", "=", "a", "p", "p", ",", "d", "b">>>>,
     <<>>,
     <<<<"R", "O", "L", "E", "=">>>>,
     <<<<"R", "O", "L", "E", "=", "a", "_", "p">>>>}

\* The items for SRV: SRV=web_be,api, none, SRV=, SRV=web-be, SRV=web.be.
SrvItems ==
    {<<<<"S", "R", "V", "=", "w", "e", "b", "_", "b", "e", ",", "a", "p", "i">>>>,
     <<>>,
     <<<<"S", "R", "V", "=">>>>,
     <<<<"S", "R", "V", "=", "w", "e", "b", "-", "b", "e">>>>,
     <<<<"S", "R", "V", "=", "w", "e", "b", ".", "b", "e">>>>}

\* The items for VARS and the rest: VARS=k=v,k2=v2, none, VARS=, an item
\* of an unknown key (FOO=bar), an empty item, and both after VARS=k=v.
VarsItems ==
    {<<<<"V", "A", "R", "S", "=", "k", "=", "v", ",", "k", "2", "=", "v", "2">>>>,
     <<>>,
     <<<<"V", "A", "R", "S", "=">>>>,
     <<<<"F", "O", "O", "=", "b", "a", "r">>>>,
     <<<<>>>>,
     <<<<"V", "A", "R", "S", "=", "k", "=", "v">>, <<"F", "O", "O", "=", "b", "a", "r">>, <<>>>>}

\* The calls of ParseAttributes: the raw string is made of the items.
ParseCalls ==
    {[op |-> "ParseAttributes", items |-> os \o env \o role \o srv \o vs] :
        os \in OsItems, env \in EnvItems, role \in RoleItems,
        srv \in SrvItems, vs \in VarsItems}

\* The attribute records handed to RenderAttributes and PublishHosts: OS
\* lin or empty, Env dev or `d v`, Role app,db or empty, Srv empty, web_be or
\* w.b, Vars empty or k=v.
AttributeRecords ==
    [OS : {<<"l", "i", "n">>, <<>>},
     Env : {<<"d", "e", "v">>, <<"d", " ", "v">>},
     Role : {<<"a", "p", "p", ",", "d", "b">>, <<>>},
     Srv : {<<>>, <<"w", "e", "b", "_", "b", "e">>, <<"w", ".", "b">>},
     Vars : {<<>>, <<"k", "=", "v">>}]

\* The calls of RenderAttributes.
RenderCalls == {[op |-> "RenderAttributes", attributes |-> a] : a \in AttributeRecords}

\* Host names: two of the configured zone and one of no configured zone.
hostA == <<"a", ".", "s", "e", "r", "v", "e", "r", ".", "l", "o", "c", "a", "l">>
hostB == <<"b", ".", "s", "e", "r", "v", "e", "r", ".", "l", "o", "c", "a", "l">>
hostC == <<"c", ".", "o", "t", "h", "e", "r", ".", "l", "o", "c", "a", "l">>

\* A record that passes validation, one that does not (no OS), and another
\* that passes (no Srv).
PublishedAttributes ==
    LET valid == [OS |-> <<"l", "i", "n">>, Env |-> <<"d", "e", "v">>,
                  Role |-> <<"a", "p", "p", ",", "d", "b">>,
                  Srv |-> <<"w", "e", "b", "_", "b", "e">>, Vars |-> <<>>]
    IN {valid, [valid EXCEPT !.OS = <<>>],
        [valid EXCEPT !.Srv = <<>>, !.Vars = <<"k", "=", "v">>]}

\* The sequences over S of at most n elements.
SeqsUpTo(S, n) == UNION {[1..k -> S] : k \in 0..n}

\* What a map may hold for a host name: nothing (<<>>), or a list (<<list>>).
MayHold(lists) == {<<>>} \cup {<<l>> : l \in lists}

\* The calls of PublishHosts: host names with their lists of attributes.
PublishHostsCalls ==
    {[op |-> "PublishHosts",
      hosts |-> [h \in {x \in {hostA, hostB, hostC} : held[x] # <<>>} |-> held[h][1]]] :
        held \in {(hostA :> a) @@ (hostB :> b) @@ (hostC :> c) :
                     a \in MayHold(SeqsUpTo(PublishedAttributes, MaxPublished)),
                     b \in MayHold(SeqsUpTo(PublishedAttributes, MaxPublished)),
                     c \in MayHold(SeqsUpTo(PublishedAttributes, 1))}}

\* The records handed to PublishRecords as they come, those of different
\* hosts in any order.
PublishedRecords ==
    {[Hostname |-> h, Attributes |-> RenderAttributes(a).str] :
        h \in {hostA, hostB, hostC},
        a \in {x \in PublishedAttributes : ValidAttributes(x)}}

\* The calls of PublishRecords.
PublishRecordsCalls ==
    {[op |-> "PublishRecords", records |-> r] :
        r \in SeqsUpTo(PublishedRecords, MaxPublished + 1)}

\* What the etcd keyspace may hold before an import: what earlier imports of
\* records of the host a.server.local left.
KeyspacesBefore ==
    {EtcdAfter(EmptyMap, PublishRecords(r).puts) :
        r \in SeqsUpTo({x \in PublishedRecords : x.Hostname = hostA}, MaxPublished)}

\* The runs of `dns-inventory -import <file>`: the keyspace before, and the
\* host names of the file with their lists of attributes.
ImportCalls ==
    {[op |-> "import", kvs |-> k,
      hosts |-> [h \in {x \in {hostA, hostB, hostC} : held[x] # <<>>} |-> held[h][1]]] :
        k \in KeyspacesBefore,
        held \in {(hostA :> a) @@ (hostB :> b) @@ (hostC :> c) :
                     a \in MayHold(SeqsUpTo(PublishedAttributes, MaxPublished)),
                     b \in MayHold(SeqsUpTo(PublishedAttributes, 1)),
                     c \in MayHold({<<x>> : x \in {y \in PublishedAttributes :
                                                        ValidAttributes(y)}})}}

\* main started with -version (no -import, no -host) on the records the
\* datasource returns: how the run ends, "version" when it has printed the
\* version and the build time.
MainVersion(records) ==
    LET got == InventoryGetHosts(records)
    IN IF got.panic THEN "panic"
       ELSE IF ExitOn(got.hosts) # "none" THEN ExitOn(got.hosts)
       ELSE "version"

\* The runs of `dns-inventory -version`, one for each content of the
\* datasource.
VersionCalls ==
    {[op |-> "version", records |-> r] : r \in SeqsUpTo(DatasourceRecords, MaxRecords)}

\* The values of txt.keys.separator: the default and the hyphen.
KeysSeparators == {KeysSeparator, <<"-">>}

\* The records the datasource may return to a run that builds the inventory.
InventoryRecords ==
    {[Hostname |-> app01, Attributes |-> RawHostRole],
     [Hostname |-> app02, Attributes |-> RawHostRole],
     [Hostname |-> app01, Attributes |-> RawRoleComma],
     [Hostname |-> app02, Attributes |-> RawLists],
     [Hostname |-> app02, Attributes |-> RawNoSrv]}

\* The runs that build the inventory: the separator of the configuration
\* and the records the datasource returns.
InventoryCalls ==
    {[op |-> "inventory", sep |-> sep, records |-> r] :
        sep \in KeysSeparators, r \in SeqsUpTo(InventoryRecords, MaxRecords)}

\* The attribute records that are published and read back: they pass
\* validation; Role and Srv are single or lists, Vars is empty, k=v, or
\* k=v;OS=win (it holds the pair separator).
RoundTripRecords ==
    {a \in [OS : {<<"l", "i", "n">>},
            Env : {<<"d", "e", "v">>},
            Role : {<<"a", "p", "p">>, <<"a", "p", "p", ",", "d", "b">>},
            Srv : {<<>>, <<"w", "e", "b", "_", "b", "e", ",", "a", "p", "i">>},
            Vars : {<<>>, <<"k", "=", "v">>,
                    <<"k", "=", "v", ";", "O", "S", "=", "w", "i", "n">>}] :
        ValidAttributes(a)}

\* The round trips: a record is rendered for the datasource and the
\* string is parsed when the datasource returns it.
RoundTripCalls == {[op |-> "roundtrip", attributes |-> a] : a \in RoundTripRecords}

\* A name with and without a dot in front and a dot behind.
Dotted(name) ==
    {name, <<".">> \o name, name \o <<".">>, <<".">> \o name \o <<".">>}

\* The calls of makeFQDN: the host h and the zone z.l, dotted or empty.
FqdnCalls ==
    {[op |-> "makeFQDN", host |-> h, zone |-> z] :
        h \in Dotted(<<"h">>) \cup {<<>>},
        z \in Dotted(<<"z", ".", "l">>) \cup {<<>>}}

\* A call is made; the run of main is not started.
InitCalls ==
    /\ datasource = <<>>
    /\ hosts = EmptyMap
    /\ tree = NewTree
    /\ export = EmptyMap
    /\ mode = "none"
    /\ imported = {}
    /\ again = {}
    /\ err = "unset"
    /\ exit = "none"
    /\ result = <<>>
    /\ \/ call \in ParseCalls
       \/ call \in RenderCalls
       \/ call \in PublishHostsCalls
       \/ call \in PublishRecordsCalls
       \/ call \in FqdnCalls
       \/ call \in ImportCalls
       \/ call \in VersionCalls
       \/ call \in InventoryCalls
       \/ call \in RoundTripCalls

\* What a call leaves alone.
run == <<datasource, hosts, tree, export, mode, imported, again, err, exit>>

\* i.ParseAttributes(raw) returns (or panics).
CallParseAttributes ==
    /\ call.op = "ParseAttributes"
    /\ result = <<>>
    /\ result' = <<ParseAttributes(RawOf(call.items))>>
    /\ UNCHANGED <<run, call>>

\* i.RenderAttributes(attributes) returns.
CallRenderAttributes ==
    /\ call.op = "RenderAttributes"
    /\ result = <<>>
    /\ result' = <<RenderAttributes(call.attributes)>>
    /\ UNCHANGED <<run, call>>

\* i.PublishHosts(hosts) returns; the map gives its host names in some order.
CallPublishHosts ==
    /\ call.op = "PublishHosts"
    /\ result = <<>>
    /\ \E hostOrder \in Perms(DOMAIN call.hosts) :
           result' = <<PublishHosts(call.hosts, hostOrder)>>
    /\ UNCHANGED <<run, call>>

\* e.PublishRecords(records) returns.
CallPublishRecords ==
    /\ call.op = "PublishRecords"
    /\ result = <<>>
    /\ result' = <<PublishRecords(call.records)>>
    /\ UNCHANGED <<run, call>>

\* d.makeFQDN(host, zone) returns.
CallMakeFQDN ==
    /\ call.op = "makeFQDN"
    /\ result = <<>>
    /\ result' = <<makeFQDN(call.host, call.zone)>>
    /\ UNCHANGED <<run, call>>

\* main with -import: PublishHosts(hosts) returns, the requests it made
\* served by etcd.
CallImport ==
    /\ call.op = "import"
    /\ result = <<>>
    /\ \E hostOrder \in Perms(DOMAIN call.hosts) :
           LET published == PublishHosts(call.hosts, hostOrder)
           IN result' = <<[kvs |-> EtcdAfter(call.kvs, published.puts),
                           puts |-> published.puts,
                           err |-> published.err]>>
    /\ UNCHANGED <<run, call>>

\* main with -version runs to its end.
CallVersion ==
    /\ call.op = "version"
    /\ result = <<>>
    /\ result' = <<MainVersion(call.records)>>
    /\ UNCHANGED <<run, call>>

\* GetHosts returns, and ImportHosts loads what it returned into a new tree
\* with the separator of the configuration; nothing is exported yet.
CallInventory ==
    /\ call.op = "inventory"
    /\ result = <<>>
    /\ LET got == InventoryGetHosts(call.records)
       IN \E o \in ImportOrders(got.hosts) :
              result' = <<[hosts |-> got.hosts,
                           tree |-> NodeImportHosts(NewTree, Root, got.hosts, call.sep,
                                                    o[1], o[2]),
                           exported |-> FALSE,
                           inventory |-> EmptyMap,
                           groups |-> EmptyMap]>>
    /\ UNCHANGED <<run, call>>

\* ExportInventory and ExportGroups return, each into a new map.
CallExports ==
    /\ call.op = "inventory"
    /\ result # <<>>
    /\ ~result[1].exported
    /\ \E ord \in RangeOrders :
           result' = <<[result[1] EXCEPT
                           !.exported = TRUE,
                           !.inventory = NodeExportInventory(result[1].tree, Root,
                                                             EmptyMap, ord),
                           !.groups = NodeExportGroups(result[1].tree, Root,
                                                       EmptyMap, ord)]>>
    /\ UNCHANGED <<run, call>>

\* PublishHosts renders the record with RenderAttributes, and GetHosts
\* parses the string the datasource holds with ParseAttributes.
CallRoundTrip ==
    /\ call.op = "roundtrip"
    /\ result = <<>>
    /\ LET rendered == RenderAttributes(call.attributes)
       IN result' = <<[rendered |-> rendered,
                       parsed |-> IF rendered.err THEN <<>>
                                  ELSE <<ParseAttributes(rendered.str)>>]>>
    /\ UNCHANGED <<run, call>>

NextCalls ==
    \/ CallParseAttributes
    \/ CallRenderAttributes
    \/ CallPublishHosts
    \/ CallPublishRecords
    \/ CallMakeFQDN
    \/ CallImport
    \/ CallVersion
    \/ CallInventory
    \/ CallExports
    \/ CallRoundTrip

SpecCalls == InitCalls /\ [][NextCalls]_vars

---------------------------------------------------------------------------
(* The claims.                                                             *)

\* The hostnames ImportHosts has loaded.
ImportedHosts == {p[1] : p \in imported}

\* The indices of a set in ascending order.
Indices(S) ==
    Elements([k \in 1..Cardinality(S) |->
                 CHOOSE i \in S : Cardinality({j \in S : j <= i}) = k])

\* The records of hs[h] that make a pair not in seen, each at its first place.
NewRecords(hs, h, seen) ==
    LET new == {i \in 1..Len(hs[h]) : /\ <<h, hs[h][i]>> \notin seen
                                      /\ \A j \in 1..(i - 1) : hs[h][j] # hs[h][i]}
        at == Indices(new)
    IN Elements([k \in 1..Len(at) |-> hs[h][at[k]]])

\* The map hs without the pairs in seen and without the repeats of a pair.
NewIn(hs, seen) == [h \in DOMAIN hs |-> NewRecords(hs, h, seen)]

\* C1: import is idempotent.  An ImportHosts call leaves the tree that the
\* import of only the pairs not imported before, each of them once, leaves:
\* a pair imported again, in a later call or twice in the same call, creates
\* no node and changes no parent, child list or host set.  A call all of
\* whose pairs were imported before leaves the tree as it is.
ImportIdempotent ==
    [][/\ Pairs(hosts) \subseteq imported => tree' = tree
       /\ (tree' # tree \/ again' # again) =>
              \E o \in ImportOrders(hosts) :
                  tree' = NodeImportHosts(tree, Root, NewIn(hosts, imported),
                                          KeysSeparator, o[1], o[2])]_vars

\* C1: a pair has been imported again, into a tree that holds hosts.
PairImportedAgain ==
    /\ again # {}
    /\ \E n \in DOMAIN tree : tree[n].Hosts # {}
    /\ \E n \in DOMAIN tree : Len(n) >= 4

\* x is listed under the key k of the map m (m[k] is nil when k is no key).
ListedUnder(m, k, x) == x \in Range(Get(m, k))

\* The group map groups and the host map hs list the same memberships.
Duals(groups, hs) ==
    LET gs == DOMAIN groups \cup UNION {Range(hs[h]) : h \in DOMAIN hs}
        hn == DOMAIN hs \cup UNION {Range(groups[g]) : g \in DOMAIN groups}
    IN \A g \in gs, h \in hn : ListedUnder(groups, g, h) <=> ListedUnder(hs, h, g)

\* C2: ExportHosts and ExportGroups are duals.  Once one of the two exporters
\* has filled the map, the other one's export of the same tree lists the same
\* memberships: h is in ExportGroups[g] if and only if g is in ExportHosts[h].
ExportsAreDuals ==
    /\ mode = "groups" =>
           Duals(export, NodeExportHosts(tree, Root, EmptyMap, "descending"))
    /\ mode = "hosts" =>
           Duals(NodeExportGroups(tree, Root, EmptyMap, "descending"), export)

\* C2: ExportHosts has exported two hosts, one of them in a group three
\* levels below the root.
DualsExported ==
    /\ mode = "hosts"
    /\ Cardinality(DOMAIN export) >= 2
    /\ \E n \in DOMAIN tree : Len(n) >= 4 /\ tree[n].Hosts # {}

\* The records imported for the hostname h, one after another.
RECURSIVE InSomeOrder(_)
InSomeOrder(S) ==
    IF S = {} THEN <<>>
    ELSE LET x == CHOOSE y \in S : TRUE IN <<x>> \o InSomeOrder(S \ {x})

\* The imported pairs as one map of hosts.
ImportedMap == [h \in ImportedHosts |-> InSomeOrder({p[2] : p \in {q \in imported : q[1] = h}})]

\* C3: the built inventory does not depend on insertion order.  The tree is
\* the one a single ImportHosts call builds from the set of the imported
\* pairs, visited in one fixed order: whatever the order in which the calls
\* so far visited the hosts, the records and the environments, the node
\* names, the parents, the order of the children and the host sets are the
\* same.
TreeIndependentOfOrder ==
    tree = NodeImportHosts(NewTree, Root, ImportedMap, KeysSeparator,
                           Ascending(ImportedHosts),
                           [h \in ImportedHosts |-> "ascending"])

\* C3: two hosts have been imported, one of them with several records, so
\* that hosts, records and environments could be visited in several orders.
SeveralOrdersImported ==
    /\ Cardinality(ImportedHosts) >= 2
    /\ Cardinality(imported) >= 3
    /\ \E p \in imported : p[2].Env # ansibleRootGroup
\* len(s) > 0
NonEmpty(s) == Len(s) > 0

\* The non-empty segments of a Srv attribute.
Segments(srv) == SelectSeq(Split(srv, KeysSeparator), NonEmpty)

\* The strings of a non-empty sequence joined by the separator of group names.
RECURSIVE Joined(_)
Joined(parts) ==
    IF Len(parts) = 1 THEN parts[1]
    ELSE Joined(SubSeq(parts, 1, Len(parts) - 1)) \o KeysSeparator \o parts[Len(parts)]

\* The names env, env_role, env_role_s1, ..., env_role_s1_..._sn.
ChainNames(env, role, segs) ==
    Elements([k \in 1..(Len(segs) + 2) |-> Joined(SubSeq(<<env, role>> \o segs, 1, k))])

\* The tree t holds the chain of names from the root down: each node is
\* there under its name, its parent is the node before it, and the node
\* before it lists it among its children.
HoldsChain(t, names) ==
    \A k \in 1..Len(names) :
        LET node == Root \o SubSeq(names, 1, k)
            parent == Root \o SubSeq(names, 1, k - 1)
        IN /\ node \in DOMAIN t
           /\ t[node].Name = names[k]
           /\ t[node].Parent = parent
           /\ node \in Range(t[parent].Children)

\* The host is a direct member of the last node of the chain of names.
HeldAtEnd(t, names, host) ==
    /\ Root \o names \in DOMAIN t
    /\ host \in t[Root \o names].Hosts

\* C4: environment-scoped chain.  For every imported record with Env = E
\* other than "all", Role = R and non-empty segments s1..sn of Srv, the tree
\* holds E below the root, E_R below E, E_R_s1 below E_R and so on down to
\* E_R_s1_..._sn, and the host is a direct member of the last node.
EnvironmentChain ==
    \A p \in imported :
        p[2].Env # ansibleRootGroup =>
            LET names == ChainNames(p[2].Env, p[2].Role, Segments(p[2].Srv))
            IN HoldsChain(tree, names) /\ HeldAtEnd(tree, names, p[1])

\* C4: a record with two service segments has been imported for an
\* environment of its own.
TwoSegmentsImported ==
    \E p \in imported :
        /\ p[2].Env # ansibleRootGroup
        /\ Len(Segments(p[2].Srv)) >= 2
        /\ Root \o ChainNames(p[2].Env, p[2].Role, Segments(p[2].Srv)) \in DOMAIN tree

\* The names all_role, all_role_s.
AllScopedNames(role, s) ==
    <<Joined(<<ansibleRootGroup, role>>), Joined(<<ansibleRootGroup, role, s>>)>>

\* C5: all-scoped placement.  For every imported record with Env other than
\* "all" whose Srv has a non-empty segment, the host is a direct member of
\* all_<Role>_<S>, S the first non-empty segment of Srv; that group is a
\* child of all_<Role>, which is a child of the root, and no node named "all"
\* lies below the root.
AllScopedPlacement ==
    /\ \A n \in DOMAIN tree : n # Root => tree[n].Name # ansibleRootGroup
    /\ \A p \in imported :
           (p[2].Env # ansibleRootGroup /\ Segments(p[2].Srv) # <<>>) =>
               LET names == AllScopedNames(p[2].Role, Segments(p[2].Srv)[1])
               IN HoldsChain(tree, names) /\ HeldAtEnd(tree, names, p[1])

\* The attribute records one parsed record a expands to: one for each pair
\* of a role and a service, the role varying slowest.
Expanded(a) ==
    LET roles == Split(a.Role, <<",">>)
        srvs == Split(a.Srv, <<",">>)
    IN Elements([l \in 1..(Len(roles) * Len(srvs)) |->
                    [OS |-> a.OS, Env |-> a.Env,
                     Role |-> roles[((l - 1) \div Len(srvs)) + 1],
                     Srv |-> srvs[((l - 1) % Len(srvs)) + 1],
                     Vars |-> a.Vars]])

\* The lists of a sequence of lists, one after another.
RECURSIVE Concatenated(_)
Concatenated(lists) ==
    IF lists = <<>> THEN <<>> ELSE Head(lists) \o Concatenated(Tail(lists))

\* The map of hosts the records recs are to give: for every hostname with a
\* record that parses, the expansions of its records that parse, in the order
\* of the records.
ExpansionOf(recs) ==
    LET parsed == Elements([i \in 1..Len(recs) |-> ParseAttributes(recs[i].Attributes)])
        valid == {i \in 1..Len(recs) : parsed[i].attrs # <<>>}
        of(h) == Indices({i \in valid : recs[i].Hostname = h})
    IN [h \in {recs[i].Hostname : i \in valid} |->
           Concatenated([k \in 1..Len(of(h)) |-> Expanded(parsed[of(h)[k]].attrs[1])])]

\* C6: record expansion.  The map GetHosts returned is the expansion of the
\* records the datasource held when it was called (the datasource only
\* grows): every raw record that parses, with m roles and k services, gives
\* its hostname m*k attribute records, one for each pair, in split order with
\* the role varying slowest, OS, Env and Vars copied; the records of one
\* hostname follow each other in the order of the raw records.
RecordExpansion ==
    \E k \in 0..Len(datasource) : hosts = ExpansionOf(SubSeq(datasource, 1, k))

\* C6: GetHosts has returned a hostname with the records of two raw records,
\* one of them expanded to two roles times two services.
TwoRecordsExpanded ==
    \E h \in DOMAIN hosts :
        /\ Len(hosts[h]) >= 5
        /\ \E i \in 1..Len(datasource) :
               /\ datasource[i].Hostname = h
               /\ Len(Expanded(ParseAttributes(datasource[i].Attributes).attrs[1])) = 4

\* The children of the node at the end of the chain of names, if it is there.
ChildrenAtEnd(t, names) ==
    IF Root \o names \in DOMAIN t THEN Range(t[Root \o names].Children) ELSE {}

\* The node c below a role group is there for an imported record of that
\* role with a non-empty Srv, in the environment env or in any.
BelowForService(c, role, envs) ==
    \E q \in imported :
        /\ q[2].Role = role
        /\ q[2].Env \in envs
        /\ \E s \in Range(Segments(q[2].Srv)) :
               \E e \in envs \cup {ansibleRootGroup} : tree[c].Name = Joined(<<e, role, s>>)

\* The environments of the imported records.
ImportedEnvs == {p[2].Env : p \in imported}

\* C7: empty service.  A raw record that parses with an empty Srv expands
\* to one attribute record for each of its roles, with an empty Srv (to
\* exactly one when it has one role); the import of such a record makes the
\* host a direct member of <Env>_<Role> and of all_<Role>, and every node
\* below either role group is there for another record, one with a
\* non-empty Srv.
EmptyService ==
    /\ \A i \in 1..Len(datasource) :
           LET r == datasource[i]
               parsed == ParseAttributes(r.Attributes)
               got == Get(InventoryGetHosts(<<r>>).hosts, r.Hostname)
           IN (parsed.attrs # <<>> /\ parsed.attrs[1].Srv = <<>>) =>
                  /\ Len(got) = Len(Split(parsed.attrs[1].Role, <<",">>))
                  /\ \A j \in 1..Len(got) : got[j].Srv = <<>>
                  /\ Len(Split(parsed.attrs[1].Role, <<",">>)) = 1 => Len(got) = 1
    /\ \A p \in imported :
           p[2].Srv = <<>> =>
               LET own == <<p[2].Env, Joined(<<p[2].Env, p[2].Role>>)>>
                   all == <<Joined(<<ansibleRootGroup, p[2].Role>>)>>
               IN /\ p[2].Env # ansibleRootGroup => HeldAtEnd(tree, own, p[1])
                  /\ HeldAtEnd(tree, all, p[1])
                  /\ \A c \in ChildrenAtEnd(tree, own) :
                         BelowForService(c, p[2].Role, {p[2].Env})
                  /\ \A c \in ChildrenAtEnd(tree, all) :
                         BelowForService(c, p[2].Role, ImportedEnvs)

\* C7: a record with an empty Srv has been read and imported, and its host
\* is held by a role group.
EmptyServiceImported ==
    \E p \in imported :
        /\ p[2].Srv = <<>>
        /\ \E i \in 1..Len(datasource) :
               /\ datasource[i].Hostname = p[1]
               /\ ParseAttributes(datasource[i].Attributes).attrs = <<p[2]>>
        /\ p[1] \in tree[Root \o <<p[2].Env, Joined(<<p[2].Env, p[2].Role>>)>>].Hosts

\* C8: once ExportGroups has filled the map, after any calls of ImportHosts,
\* the list of "all" holds exactly the imported hostnames, each once, and
\* the list of every child group holds only hosts of the list of its parent.
GroupsHoldAllHosts ==
    mode = "groups" =>
        /\ Range(Get(export, ansibleRootGroup)) = ImportedHosts
        /\ Len(Get(export, ansibleRootGroup)) = Cardinality(ImportedHosts)
        /\ \A n \in DOMAIN tree : \A c \in Range(tree[n].Children) :
               Range(Get(export, tree[c].Name)) \subseteq Range(Get(export, tree[n].Name))

\* C8: ExportGroups has run after two hosts were imported, a pair of them by
\* more than one visit.
GroupsExportedAfterImports ==
    /\ mode = "groups"
    /\ Cardinality(ImportedHosts) >= 2
    /\ again # {}
    /\ Len(Get(export, ansibleRootGroup)) >= 2

\* Each string of the list is less than the next.
StrictlyAscending(s) == \A i \in 1..(Len(s) - 1) : StrLess(s[i], s[i + 1])

\* C9: every list of every export is in strictly ascending order: the
\* children and the hosts of each group of ExportInventory, the groups of
\* each host of ExportHosts and the hosts of each group of ExportGroups,
\* whatever the order in which the nodes and hosts were inserted and the
\* maps ranged over.
ExportsSorted ==
    /\ mode = "list" =>
           \A g \in DOMAIN export : /\ StrictlyAscending(export[g].Children)
                                    /\ StrictlyAscending(export[g].Hosts)
    /\ mode \in {"hosts", "groups"} =>
           \A k \in DOMAIN export : StrictlyAscending(export[k])

\* C9: ExportInventory has exported a group of three children and a group of
\* two hosts.
ListsExported ==
    /\ mode = "list"
    /\ \E g \in DOMAIN export : Len(export[g].Children) >= 3
    /\ \E g \in DOMAIN export : Len(export[g].Hosts) >= 2

\* C10: exporters are read-only and repeatable.  A step of an exporter
\* leaves the tree as it is, and an exporter run again on the same tree,
\* into a new map or into the map it filled before, whatever the order in
\* which it ranges over maps, leaves a map equal to the one of its first run.
ExportersRepeatable ==
    [][/\ mode' # "none" => tree' = tree
       /\ mode' = mode => export' = export]_vars

\* C10: ExportHosts has filled the map with two hosts, one of them in six
\* groups or more: the state from which it runs again.
HostsExported ==
    /\ mode = "hosts"
    /\ \E h \in DOMAIN export : Len(export[h]) >= 6
    /\ Cardinality(DOMAIN export) >= 2
\* The node reached from n by following Parent k times (the sentinel has no
\* Parent to follow).
RECURSIVE ParentOf(_, _, _)
ParentOf(t, n, k) ==
    IF k = 0 \/ n \notin DOMAIN t THEN n ELSE ParentOf(t, t[n].Parent, k - 1)

\* The nodes that list n among their children.
Holders(t, n) == {m \in DOMAIN t : n \in Range(t[m].Children)}

\* C11: tree shape.  After any sequence of ImportHosts calls from NewTree,
\* (a) no node has two children of one name; (b) exactly one node is named
\* "all", it is the root, and its parent is the nameless sentinel; (c) every
\* other node's Parent is the one node whose Children list holds it (once),
\* and following Parent from any node reaches the root within as many steps
\* as there are nodes.
TreeShape ==
    /\ \A n \in DOMAIN tree : \A i, j \in 1..Len(tree[n].Children) :
           tree[tree[n].Children[i]].Name = tree[tree[n].Children[j]].Name => i = j
    /\ {n \in DOMAIN tree : tree[n].Name = ansibleRootGroup} = {Root}
    /\ tree[Root].Parent = Sentinel
    /\ NodeName(tree, Sentinel) = <<>>
    /\ Holders(tree, Root) = {}
    /\ \A n \in DOMAIN tree \ {Root} :
           /\ Holders(tree, n) = {tree[n].Parent}
           /\ \E k \in 1..Cardinality(DOMAIN tree) : ParentOf(tree, n, k) = Root

\* C11: ImportHosts has run twice or visited a pair twice, for a record of
\* the environment all among others, and left nodes four levels below the root.
ShapedAfterImports ==
    /\ again # {}
    /\ \E p \in imported : p[2].Env = ansibleRootGroup
    /\ \E n \in DOMAIN tree : Len(n) >= 5
\* A name no node of the model has.
newName == <<"n", "e", "w">>

\* The names of the nodes of the tree, and one more.
NamesToAdd == {tree[n].Name : n \in DOMAIN tree} \cup {newName}

\* The children of n that have the name.
Named(t, n, name) == {c \in Range(t[n].Children) : t[c].Name = name}

\* C12: AddChild(name) on a node n of the tree.  If name is n's own name it
\* returns n and changes nothing; otherwise, if n has a child of exactly that
\* name, it returns that child and changes nothing; otherwise it appends one
\* new node (that name, parent n, no children, no hosts) to the end of n's
\* children and returns it.  No other node and no host set is changed.
AddChildContract ==
    \A n \in DOMAIN tree : \A name \in NamesToAdd :
        LET r == AddChild(tree, n, name)
        IN IF name = tree[n].Name THEN r.node = n /\ r.tree = tree
           ELSE IF Named(tree, n, name) # {}
           THEN r.node \in Named(tree, n, name) /\ r.tree = tree
           ELSE /\ r.node \notin DOMAIN tree
                /\ DOMAIN r.tree = DOMAIN tree \cup {r.node}
                /\ r.tree[r.node] = [Name |-> name, Parent |-> n,
                                      Children |-> <<>>, Hosts |-> {}]
                /\ r.tree[n] = [tree[n] EXCEPT !.Children = Append(@, r.node)]
                /\ \A m \in DOMAIN tree \ {n} : r.tree[m] = tree[m]

\* C12: the tree has a node that holds hosts and has a child, and a node
\* with two children and a name that is a node's elsewhere and not one of
\* its children's: AddChild meets each of its three cases on that node.
AddChildCasesMet ==
    \E n, h \in DOMAIN tree :
        /\ Len(tree[n].Children) >= 2
        /\ tree[h].Hosts # {} /\ tree[h].Children # <<>>
        /\ \E name \in NamesToAdd \ {newName} :
               name # tree[n].Name /\ Named(tree, n, name) = {}
\* C13: parsing never aborts the run.  For every raw attribute string of
\* the datasource, also one with an item made of a recognised key and no
\* key/value separator, ParseAttributes returns an attribute record or a
\* validation error, and GetHosts skips only that record and goes on: no
\* call of GetHosts ends the run in a panic, and ParseAttributes returns
\* a record or an error for each record of the datasource.
ParsingNeverAborts ==
    /\ exit # "panic"
    /\ (err # "unset" \/ exit # "none") =>
           \A i \in 1..Len(datasource) :
               LET p == ParseAttributes(datasource[i].Attributes)
               IN ~p.panic /\ (p.attrs # <<>> \/ p.err)
\* ParseAttributes has returned from the call (or panicked in it).
Parsed == call.op = "ParseAttributes" /\ result # <<>>

\* The five configured key names.
KeyNames == {KeyOs, KeyEnv, KeyRole, KeySrv, KeyVars}

\* The values the items give the key: what follows `key=` in an item.
Given(items, key) ==
    {SubSeq(it, Len(key) + 2, Len(it)) :
        it \in {x \in Range(items) : HasPrefix(x, key \o KvEqualsign)}}

\* Every item of a recognised key has the key/value separator (an item
\* that is a bare key is the case of C13).
KeyValueItems(items) == \A it \in Range(items) : it \notin KeyNames

\* The key is given one value, not empty, of the characters allowed.
GivenWell(items, key, allowed) ==
    \E v \in Given(items, key) :
        /\ Given(items, key) = {v}
        /\ v # <<>>
        /\ AllIn(v, allowed)

\* OS, Env and Role are given, each within its characters.
RequiredGivenWell(items) ==
    /\ GivenWell(items, KeyOs, Letters \cup Digits)
    /\ GivenWell(items, KeyEnv, Letters \cup Digits)
    /\ GivenWell(items, KeyRole, Letters \cup Digits \cup {","})

ServiceCharacterSet ==
    (Parsed /\ KeyValueItems(call.items)) =>
        \A v \in Given(call.items, KeySrv) :
            ~AllIn(v, Letters \cup Digits \cup {","} \cup Range(KeysSeparator)) =>
                (result[1].err /\ result[1].attrs = <<>>)

\* The item has one of the five key names: it is the key or starts with `key=`.
Recognised(item) ==
    \E key \in KeyNames : item = key \/ HasPrefix(item, key \o KvEqualsign)

\* C16: split on first occurrence.  ParseAttributes splits an item at the
\* first key/value separator only: the value stored for VARS is the whole
\* rest of the item, further separators included; and items of a key that
\* is none of the five are ignored: the call returns what it returns for
\* the raw string without them.
SplitOnFirst ==
    Parsed =>
        /\ result[1].attrs # <<>> =>
               \A v \in Given(call.items, KeyVars) : result[1].attrs[1].Vars = v
        /\ result[1] = ParseAttributes(RawOf(SelectSeq(call.items, Recognised)))

\* C16: ParseAttributes has returned a record with an equals sign in Vars
\* for a raw string with an item of an unknown key.
ParsedVarsWithEqualsign ==
    /\ Parsed
    /\ result[1].attrs # <<>>
    /\ KvEqualsign[1] \in Range(result[1].attrs[1].Vars)
    /\ \E it \in Range(call.items) : ~Recognised(it) /\ it # <<>>
\* RenderAttributes has returned from the call.
Rendered == call.op = "RenderAttributes" /\ result # <<>>

\* C17: RenderAttributes on a record that passes validation returns the
\* five pairs in the order OS, ENV, ROLE, SRV, VARS, each as key, equals sign
\* and value, joined by the pair separator with none at the end, the pairs
\* of SRV and VARS also when their values are empty; on a record that fails
\* validation it returns the empty string and an error.
RenderedInOrder ==
    Rendered =>
        LET a == call.attributes
        IN IF ValidAttributes(a)
           THEN /\ ~result[1].err
                /\ result[1].str =
                       KeyOs \o KvEqualsign \o a.OS \o KvSeparator
                       \o KeyEnv \o KvEqualsign \o a.Env \o KvSeparator
                       \o KeyRole \o KvEqualsign \o a.Role \o KvSeparator
                       \o KeySrv \o KvEqualsign \o a.Srv \o KvSeparator
                       \o KeyVars \o KvEqualsign \o a.Vars
           ELSE result[1].err /\ result[1].str = <<>>

\* C17: RenderAttributes has returned the string of a valid record whose
\* Srv and Vars are empty.
RenderedEmptyOptional ==
    /\ Rendered
    /\ call.attributes.Srv = <<>> /\ call.attributes.Vars = <<>>
    /\ ~result[1].err
    /\ Len(result[1].str) > 0
\* The records of the datasource that ParseAttributes returns a record for.
Usable(records) ==
    {i \in 1..Len(records) : ParseAttributes(records[i].Attributes).attrs # <<>>}

\* C18 as stated: an empty result is an error of GetHosts.  When the
\* datasource yields no record, or none that parses, the caller of GetHosts
\* gets an error and not an empty map of hosts, and no empty inventory is
\* exported.
EmptyResultIsError ==
    /\ err = "nil" => DOMAIN hosts # {}
    /\ mode # "none" => DOMAIN export # {}

\* C18 as amended: an empty result is a fatal exit of main.  When the
\* datasource yields no record, or none that parses, GetHosts returns an
\* empty map of hosts and a nil error; main then ends the run ("no host
\* records found") before it imports or exports anything, so that no empty
\* inventory is exported.
EmptyResultIsFatal ==
    /\ (err = "nil" /\ DOMAIN hosts = {}) =>
           /\ exit = "fatal"
           /\ Usable(datasource) = {}
    /\ exit = "fatal" =>
           /\ err = "nil" /\ hosts = EmptyMap
           /\ tree = NewTree /\ imported = {}
           /\ mode = "none" /\ export = EmptyMap
    /\ mode # "none" => (ImportedHosts # {} /\ DOMAIN export # {})

\* C18: main has ended the run on a datasource whose every record fails
\* parsing.
EndedOnUnusableRecords ==
    /\ exit = "fatal"
    /\ Len(datasource) >= 2
    /\ Usable(datasource) = {}
\* PublishHosts or PublishRecords has returned from the call.
Published == call.op \in {"PublishHosts", "PublishRecords"} /\ result # <<>>

\* The attribute strings the call offers the datasource for a host name, in
\* order: those of the host's records that pass validation (PublishHosts),
\* or those of the records of that host name (PublishRecords).
Offered(h) ==
    IF call.op = "PublishHosts"
    THEN IF h \in DOMAIN call.hosts
         THEN LET valid == SelectSeq(call.hosts[h], ValidAttributes)
              IN [i \in 1..Len(valid) |-> RenderAttributes(valid[i]).str]
         ELSE <<>>
    ELSE LET OfHost(r) == r.Hostname = h
             rs == SelectSeq(call.records, OfHost)
         IN [i \in 1..Len(rs) |-> rs[i].Attributes]

\* The key <zone>/<hostname>/<index> for an index below ten.
IndexKey(zone, h, index) ==
    zone \o <<"/">> \o h \o <<"/">>
    \o <<(<<"0", "1", "2", "3", "4", "5", "6", "7", "8", "9">>)[index + 1]>>

\* The requests among puts whose key is one of the host name.
PutsOf(puts, zone, h) ==
    LET OfHost(p) == \E index \in 0..9 : p.key = IndexKey(zone, h, index)
    IN SelectSeq(puts, OfHost)

\* C19: etcd record indexes.  The records written for a host name of the
\* configured zone get the keys <zone>/<hostname>/0, .../1, ..., in the order
\* of the host's list, with no gap and no index twice, also when records of
\* the host are skipped as invalid and when the records of different hosts
\* are interleaved; when the call returns no error they are all of the k
\* records of the host that pass validation, up to .../(k-1).  Nothing else
\* is written.
EtcdIndexes ==
    Published =>
        LET r == result[1]
            zone == EtcdZones[1]
        IN /\ \A h \in {hostA, hostB} :
                  LET written == PutsOf(r.puts, zone, h)
                      offered == Offered(h)
                  IN /\ Len(written) <= Len(offered)
                     /\ \A i \in 1..Len(written) :
                            written[i] = [key |-> IndexKey(zone, h, i - 1),
                                          value |-> offered[i]]
                     /\ ~r.err => Len(written) = Len(offered)
           /\ Len(r.puts) = Len(PutsOf(r.puts, zone, hostA))
                             + Len(PutsOf(r.puts, zone, hostB))

\* C19: PublishHosts has returned without an error for two hosts, one of
\* them with an invalid record before a valid one, which it wrote.
PublishedAfterSkip ==
    /\ call.op = "PublishHosts" /\ result # <<>>
    /\ ~result[1].err
    /\ DOMAIN call.hosts = {hostA, hostB}
    /\ \E h \in {hostA, hostB} :
           /\ Len(call.hosts[h]) >= 2
           /\ ~ValidAttributes(call.hosts[h][1])
           /\ Len(PutsOf(result[1].puts, EtcdZones[1], h)) >= 1
    /\ Len(result[1].puts) >= 2
\* A name without the dots in front of it and behind it.
Undotted(name) == Trim(name, ".")

\* C20: makeFQDN(host, zone) normalises dots.  For a host and a zone, each
\* with or without a dot in front and a dot behind, the result has no dot
\* in front and exactly one behind, and is the host joined to the zone by
\* one dot; with an empty zone it is the host alone, with an empty host the
\* zone alone, and with both empty it is `.`.
FqdnNormalised ==
    (call.op = "makeFQDN" /\ result # <<>>) =>
        LET h == Undotted(call.host)
            z == Undotted(call.zone)
        IN result[1] = IF h = <<>> /\ z = <<>> THEN <<".">>
                       ELSE IF z = <<>> THEN h \o <<".">>
                       ELSE IF h = <<>> THEN z \o <<".">>
                       ELSE h \o <<".">> \o z \o <<".">>

\* C21: import clears first.  When an import returns without error, the
\* etcd keyspace holds exactly the records of the imported file: every key is
\* one the import wrote, so no record under a stale index of a host that was
\* imported before is left.
ImportClearsFirst ==
    (call.op = "import" /\ result # <<>> /\ ~result[1].err) =>
        result[1].kvs = EtcdAfter(EmptyMap, result[1].puts)

\* The nodes that hold the host h in their own host set.
Owners(t, h) == {n \in DOMAIN t : h \in t[n].Hosts}

\* The node n and the nodes reached from it by following Parent, the
\* nameless sentinel left out.
RECURSIVE UpToRoot(_, _)
UpToRoot(t, n) == IF n \notin DOMAIN t THEN {} ELSE {n} \cup UpToRoot(t, t[n].Parent)

\* C22: ExportHosts merges every owner.  ExportHosts has an entry for every
\* host some node holds and for no other; the entry of h lists, each once,
\* the names of the nodes that hold h and of all their ancestors up to and
\* including the root `all`, and nothing else: every owner contributes, not
\* only the last one visited, and the nameless sentinel is never listed.
ExportHostsMerges ==
    mode = "hosts" =>
        /\ DOMAIN export = UNION {tree[n].Hosts : n \in DOMAIN tree}
        /\ \A h \in DOMAIN export :
               /\ Range(export[h]) =
                      {tree[a].Name : a \in UNION {UpToRoot(tree, n) : n \in Owners(tree, h)}}
               /\ \A i, j \in 1..Len(export[h]) : export[h][i] = export[h][j] => i = j
               /\ ansibleRootGroup \in Range(export[h])
               /\ <<>> \notin Range(export[h])

\* C22: ExportHosts has exported a host that four nodes or more hold, two
\* of them on different branches below one environment.
SeveralOwnersExported ==
    /\ mode = "hosts"
    /\ \E h \in DOMAIN export :
           /\ Cardinality(Owners(tree, h)) >= 4
           /\ \E n, k \in Owners(tree, h) :
                  /\ n # k /\ Len(n) >= 3 /\ Len(k) >= 3
                  /\ n[2] = k[2] /\ n[3] # k[3]
           /\ Len(export[h]) >= 6

\* The environment node of e in the tree t: the root for "all", and the
\* children of the root named e otherwise.
EnvNodes(t, e) ==
    IF e = ansibleRootGroup THEN {Root}
    ELSE {c \in Range(t[Root].Children) : t[c].Name = e}

\* The children of the node n that have the name and n as their Parent.
ChildrenOf(t, n, name) ==
    {c \in Range(t[n].Children) : t[c].Name = name /\ t[c].Parent = n}

\* C23: special host/OS groups.  For every imported pair of a hostname and
\* a record, and each environment e of the record's Env and "all", the group
\* e_host is a child of the environment node of e (of the root itself when e
\* is "all"), the group e_host_<OS> is a child of e_host, and the host is a
\* direct member of e_host_<OS>, whatever the Role and Srv of the record.
SpecialGroups ==
    \A p \in imported : \A e \in {p[2].Env, ansibleRootGroup} :
        \E envNode \in EnvNodes(tree, e) :
            \E hostGroup \in ChildrenOf(tree, envNode, Joined(<<e, hostLiteral>>)) :
                \E osGroup \in ChildrenOf(tree, hostGroup,
                                          Joined(<<e, hostLiteral, p[2].OS>>)) :
                    p[1] \in tree[osGroup].Hosts

\* C23: records of two environments, one of them "all", of two operating
\* systems and with and without a Srv have been imported.
SpecialGroupsImported ==
    /\ \E p, q \in imported :
           /\ p[2].Env = ansibleRootGroup /\ q[2].Env # ansibleRootGroup
           /\ p[2].OS # q[2].OS
           /\ p[2].Srv # <<>> /\ q[2].Srv = <<>>
    /\ \E n \in DOMAIN tree : Len(n) = 4 /\ tree[n].Hosts # {}

\* The names all_role, all_role_s1, ..., all_role_s1_..._sn.
AllChainNames(role, segs) == Tail(ChainNames(ansibleRootGroup, role, segs))

\* C24: the all-scoped service chain is deepened only by records whose own
\* Env is "all".  A node named all_<R>_<s1>_..._<sj> with two service
\* segments or more is in the tree only if some imported record with Env =
\* "all" and Role = R has s1..sj as the first of its non-empty Srv segments;
\* every such record has its full chain all_<R>, all_<R>_<s1>, ... directly
\* beneath the root with the host held at its end, and it is not inserted a
\* second time below an environment node "all": the root is the only node
\* of that name.
AllChainDeepened ==
    /\ \A n \in DOMAIN tree :
           LET parts == Split(tree[n].Name, KeysSeparator)
           IN (/\ HasPrefix(tree[n].Name, ansibleRootGroup \o KeysSeparator)
               /\ Len(parts) >= 4) =>
                  \E p \in imported :
                      /\ p[2].Env = ansibleRootGroup
                      /\ p[2].Role = parts[2]
                      /\ Len(Segments(p[2].Srv)) >= Len(parts) - 2
                      /\ SubSeq(Segments(p[2].Srv), 1, Len(parts) - 2)
                             = SubSeq(parts, 3, Len(parts))
    /\ \A p \in imported :
           p[2].Env = ansibleRootGroup =>
               LET names == AllChainNames(p[2].Role, Segments(p[2].Srv))
               IN HoldsChain(tree, names) /\ HeldAtEnd(tree, names, p[1])
    /\ \A n \in DOMAIN tree : n # Root => tree[n].Name # ansibleRootGroup

\* C24: a record with Env = "all" and one with another Env, each with two
\* service segments, have been imported: the chain of the first is two
\* segments deep beneath the root.
AllChainImported ==
    /\ \E p, q \in imported :
           /\ p[2].Env = ansibleRootGroup /\ q[2].Env # ansibleRootGroup
           /\ Len(Segments(p[2].Srv)) >= 2 /\ Len(Segments(q[2].Srv)) >= 2
    /\ \E n \in DOMAIN tree :
           /\ Len(n) = 4 /\ n[2] # ansibleRootGroup
           /\ Split(tree[n].Name, KeysSeparator)[1] = ansibleRootGroup
           /\ tree[n].Hosts # {}

\* ParseAttributes returns an error for the record (it does not panic).
FailsValidation(r) ==
    LET p == ParseAttributes(r.Attributes) IN ~p.panic /\ p.err

\* ParseAttributes returns attributes for the record.
Parses(r) == ParseAttributes(r.Attributes).attrs # <<>>

\* C25: a parse failure affects only its own record.  When a call of
\* GetHosts on records none of which makes ParseAttributes panic returns,
\* it returns no error, and the map it returns holds exactly the expansions
\* of the records that parse: it is the map GetHosts returns for the same
\* records with those that fail validation taken out, so a failing record
\* adds nothing and neither removes nor alters what the other records of
\* its hostname or of other hostnames give.
FailureIsLocal ==
    [][(hosts' # hosts \/ err' # err \/ exit' # exit) =>
           ((\A i \in 1..Len(datasource) : ~ParseAttributes(datasource[i].Attributes).panic)
               => /\ err' = "nil"
                  /\ hosts' = InventoryGetHosts(SelectSeq(datasource, Parses)).hosts
                  /\ hosts' = ExpansionOf(datasource)
                  /\ DOMAIN hosts' = {datasource[i].Hostname : i \in Usable(datasource)})]_vars

\* C25: GetHosts has returned the records of a hostname whose first record
\* fails validation and whose second one parses.
ReturnedPastFailure ==
    /\ err = "nil"
    /\ Len(datasource) = 2
    /\ hosts = ExpansionOf(datasource)
    /\ FailsValidation(datasource[1])
    /\ Parses(datasource[2])
    /\ datasource[1].Hostname = datasource[2].Hostname
    /\ datasource[1].Hostname \in DOMAIN hosts

\* C26: the -version flag displays the version and the build time.  A run
\* started with -version, without -import and -host, prints them whatever
\* the datasource holds, also when it returns no host record.
VersionDisplayed ==
    (call.op = "version" /\ result # <<>>) => result[1] = "version"

\* The inventory has been built by the call, and exported.
Built == call.op = "inventory" /\ result # <<>> /\ result[1].exported

\* C27: group names are globally unique.  In a tree ImportHosts built from
\* records that passed validation, with the separator `_` or `-`, no two
\* nodes have the same name, so ExportInventory and ExportGroups each have
\* exactly one entry for every node of the tree, under its name, and the
\* entry is the one of that node: none is overwritten by another's.
GroupNamesUnique ==
    Built =>
        LET t == result[1].tree
        IN /\ \A n, k \in DOMAIN t : t[n].Name = t[k].Name => n = k
           /\ DOMAIN result[1].inventory = {t[n].Name : n \in DOMAIN t}
           /\ DOMAIN result[1].groups = {t[n].Name : n \in DOMAIN t}
           /\ Cardinality(DOMAIN result[1].inventory) = Cardinality(DOMAIN t)
           /\ Cardinality(DOMAIN result[1].groups) = Cardinality(DOMAIN t)
           /\ \A n \in DOMAIN t :
                  /\ Range(result[1].inventory[t[n].Name].Hosts) = t[n].Hosts
                  /\ Len(result[1].inventory[t[n].Name].Children) = Len(t[n].Children)
                  /\ Range(result[1].groups[t[n].Name]) = GetAllHosts(t, n)

\* C27: a tree has been built with the separator `-` from a record whose
\* role is named as the special host group and whose service is named as
\* its OS, and from a record of the environment "all".
UniqueNamesBuilt ==
    /\ Built
    /\ call.sep = <<"-">>
    /\ \E i, j \in 1..Len(call.records) :
           /\ call.records[i].Attributes = RawHostRole
           /\ call.records[j].Attributes = RawRoleComma
    /\ Cardinality(DOMAIN result[1].tree) >= 10

\* C28: render/parse round trip.  For every attribute record that passes
\* validation, RenderAttributes returns no error, and ParseAttributes on
\* the string it returns gives a record equal to it in all five fields,
\* also when Vars holds the pair separator or the key/value separator.
RoundTrip ==
    (call.op = "roundtrip" /\ result # <<>>) =>
        /\ ~result[1].rendered.err
        /\ result[1].parsed # <<>>
        /\ result[1].parsed[1].attrs = <<call.attributes>>

\* C29: expanded records keep Role non-empty.  Every attribute record in
\* the map GetHosts returns has a non-empty Role, also when the parsed Role
\* has a comma in front, behind or doubled, so the role groups ImportHosts
\* creates are named <env><sep><role> with a role part: no group is named
\* by an environment and the separator alone.
ExpandedRoleNonEmpty ==
    Built =>
        /\ \A h \in DOMAIN result[1].hosts : \A i \in 1..Len(result[1].hosts[h]) :
               result[1].hosts[h][i].Role # <<>>
        /\ \A n \in DOMAIN result[1].tree :
               \A h \in DOMAIN result[1].hosts : \A i \in 1..Len(result[1].hosts[h]) :
                   \A e \in {result[1].hosts[h][i].Env, ansibleRootGroup} :
                       result[1].tree[n].Name # e \o call.sep

\* The node n is the role group of an imported record: <e>_<Role> below the
\* environment node of e.
IsRoleGroup(t, n) ==
    \E p \in imported : \E e \in {p[2].Env, ansibleRootGroup} :
        /\ t[n].Name = Joined(<<e, p[2].Role>>)
        /\ t[n].Parent \in EnvNodes(t, e)

\* The node n is a service-chain group: it lies below a role group, and its
\* name is its parent's with one more segment.
IsServiceGroup(t, n) ==
    /\ t[n].Parent \in DOMAIN t
    /\ HasPrefix(t[n].Name, t[t[n].Parent].Name \o KeysSeparator)
    /\ \E a \in UpToRoot(t, t[n].Parent) : IsRoleGroup(t, a)

\* The node n is the group <e>_host_<OS> of an imported record.
IsOsGroup(t, n) ==
    \E p \in imported : \E e \in {p[2].Env, ansibleRootGroup} :
        /\ t[n].Name = Joined(<<e, hostLiteral, p[2].OS>>)
        /\ t[n].Parent \in DOMAIN t
        /\ t[t[n].Parent].Name = Joined(<<e, hostLiteral>>)
        /\ t[t[n].Parent].Parent \in EnvNodes(t, e)

\* C30: hosts sit only at role level or deeper.  Once ImportHosts calls
\* have imported records, the root `all` and every environment node (a
\* child of the root named after the Env of an imported record) hold no host
\* of their own; every node that holds a host is a role group, a
\* service-chain group or a group <env>_host_<OS>; and every node without
\* children holds at least one host.
HostsAtRoleLevel ==
    imported # {} =>
        /\ tree[Root].Hosts = {}
        /\ \A e \in ImportedEnvs : \A n \in EnvNodes(tree, e) : tree[n].Hosts = {}
        /\ \A n \in DOMAIN tree :
               /\ tree[n].Hosts # {} =>
                      IsRoleGroup(tree, n) \/ IsServiceGroup(tree, n) \/ IsOsGroup(tree, n)
               /\ tree[n].Children = <<>> => tree[n].Hosts # {}

\* C30: two ImportHosts calls have loaded records of two environments, one
\* with a service chain and one without a service; a role group, a
\* service-chain group and an OS group each hold a host.
HostsHeldBelowRoles ==
    /\ again # {}
    /\ Cardinality(ImportedEnvs \ {ansibleRootGroup}) >= 2
    /\ \E n \in DOMAIN tree : tree[n].Hosts # {} /\ IsRoleGroup(tree, n)
    /\ \E n \in DOMAIN tree :
           tree[n].Hosts # {} /\ IsServiceGroup(tree, n) /\ ~IsRoleGroup(tree, n)
    /\ \E n \in DOMAIN tree : tree[n].Hosts # {} /\ IsOsGroup(tree, n)

============================================================================
